---- MODULE Spec2Model ----
(***************************************************************************)
(* Model of the multi-tier text analysis cascade of the repository:        *)
(*   src/utils/optimized_analyzer.py  (OptimizedAnalyzer: cache, cascade,  *)
(*                                     batch, stats, cache maintenance)    *)
(*   src/utils/model_manager.py       (ModelManager: local classifier)     *)
(*   src/utils/extract_price.py       (clean_text, price extraction)       *)
(*                                                                         *)
(* Texts are TLA+ strings handled character by character; Python dicts are *)
(* functions whose DOMAIN is the set of keys present; Python None is the   *)
(* value None (NoneDict where a dict is expected).                         *)
(***************************************************************************)
EXTENDS Integers, Sequences, FiniteSets, TLC

(***************************************************************************)
(* Strings and characters                                                  *)
(***************************************************************************)
Char(s, i) == SubSeq(s, i, i)

Rest(s) == SubSeq(s, 2, Len(s))

UpperCase == "ABCDEFGHIJKLMNOPQRSTUVWXYZ"

LowerCase == "abcdefghijklmnopqrstuvwxyz"

DigitChars == "0123456789"

StrChars(s) == {Char(s, i) : i \in 1..Len(s)}

Letters == StrChars(UpperCase) \cup StrChars(LowerCase)

Digits == StrChars(DigitChars)

\* \s of Python's re (the ASCII part)
Whitespace == {" ", "\t", "\n", "\r", "\f"}

\* \w of Python's re (the ASCII part)
WordChars == Letters \cup Digits \cup {"_"}

\* str.lower() on one character
CharLower(c) ==
    IF c \in StrChars(UpperCase)
    THEN Char(LowerCase, CHOOSE i \in 1..Len(UpperCase) : Char(UpperCase, i) = c)
    ELSE c

RECURSIVE str_lower(_)
\* str.lower()
str_lower(s) ==
    IF Len(s) = 0 THEN "" ELSE CharLower(Char(s, 1)) \o str_lower(Rest(s))

\* Python's  sub in s
Contains(s, sub) ==
    \E i \in 0..(Len(s) - Len(sub)) : SubSeq(s, i + 1, i + Len(sub)) = sub

\* Python's  any(keyword in s for keyword in keywords)
AnyIn(keywords, s) == \E i \in 1..Len(keywords) : Contains(s, keywords[i])

RECURSIVE str_strip(_)
\* str.strip()
str_strip(s) ==
    IF Len(s) = 0 THEN ""
    ELSE IF Char(s, 1) \in Whitespace THEN str_strip(Rest(s))
    ELSE IF Char(s, Len(s)) \in Whitespace THEN str_strip(SubSeq(s, 1, Len(s) - 1))
    ELSE s

RECURSIVE KeepChars(_, _)
\* re.sub(r'[^<keep>]', '', s)
KeepChars(s, keep) ==
    IF Len(s) = 0 THEN ""
    ELSE (IF Char(s, 1) \in keep THEN Char(s, 1) ELSE "") \o KeepChars(Rest(s), keep)

(***************************************************************************)
(* clean_text  (src/utils/extract_price.py)                                *)
(***************************************************************************)
\* the class [\w\s\.\,\$\€\£\¥\-\+\%\d] whose complement is blanked
CleanKeep == WordChars \cup Whitespace \cup {".", ",", "$", "€", "£", "¥", "-", "+", "%"}

RECURSIVE BlankSpecial(_)
\* re.sub(r'[^\w\s\.\,\$\€\£\¥\-\+\%\d]', ' ', text)
BlankSpecial(s) ==
    IF Len(s) = 0 THEN ""
    ELSE (IF Char(s, 1) \in CleanKeep THEN Char(s, 1) ELSE " ") \o BlankSpecial(Rest(s))

RECURSIVE SkipSpace(_)
SkipSpace(s) ==
    IF Len(s) > 0 /\ Char(s, 1) \in Whitespace THEN SkipSpace(Rest(s)) ELSE s

RECURSIVE CollapseSpace(_)
\* re.sub(r'\s+', ' ', text)
CollapseSpace(s) ==
    IF Len(s) = 0 THEN ""
    ELSE IF Char(s, 1) \in Whitespace THEN " " \o CollapseSpace(SkipSpace(s))
    ELSE Char(s, 1) \o CollapseSpace(Rest(s))

\* (\d),(\d{3}) matches at the head of s
ThousandsAt(s) ==
    /\ Len(s) >= 5
    /\ Char(s, 1) \in Digits
    /\ Char(s, 2) = ","
    /\ \A i \in 3..5 : Char(s, i) \in Digits

RECURSIVE DropThousands(_)
\* re.sub(r'(\d),(\d{3})', r'\1\2', text): matches are taken left to right and
\* do not overlap, so the scan resumes after the three digits of a match
DropThousands(s) ==
    IF Len(s) = 0 THEN ""
    ELSE IF ThousandsAt(s)
         THEN Char(s, 1) \o SubSeq(s, 3, 5) \o DropThousands(SubSeq(s, 6, Len(s)))
         ELSE Char(s, 1) \o DropThousands(Rest(s))

clean_text(text) ==
    IF Len(text) = 0 THEN ""
    ELSE str_strip(DropThousands(CollapseSpace(BlankSpecial(text))))

(***************************************************************************)
(* Regular expressions of Python's re, as far as the patterns of the       *)
(* source use them: a backtracking matcher that returns the first match in *)
(* re's priority order (greedy repetition, alternatives left to right).    *)
(***************************************************************************)
RNode(op, cs, lit, rs, n) == [op |-> op, cs |-> cs, lit |-> lit, rs |-> rs, n |-> n]

\* a character class [...]
RCls(cs) == RNode("cls", cs, "", <<>>, 0)

\* a literal string
RLit(str) == RNode("lit", {}, str, <<>>, 0)

\* r1 r2 ...
RCat(rs) == RNode("cat", {}, "", rs, 0)

\* r1|r2|...
RAlt(rs) == RNode("alt", {}, "", rs, 0)

\* r?
ROpt(r) == RNode("opt", {}, "", <<r>>, 0)

\* r*
RStar(r) == RNode("star", {}, "", <<r>>, 0)

\* r{n}
RRep(r, n) == RNode("rep", {}, "", <<r>>, n)

\* r+
RPlus(r) == RCat(<<r, RStar(r)>>)

\* r{n,}
RAtLeast(r, n) == RCat(<<RRep(r, n), RStar(r)>>)

\* (r), a capturing group
RGrp(r) == RNode("grp", {}, "", <<r>>, 0)

\* the end of a group opened at offset n
RClose(n) == RNode("close", {}, "", <<>>, n)

\* the end of one iteration of the repetition star, begun at offset n
RLoop(star, n) == RNode("loop", {}, "", <<star>>, n)

NoMatch == [ok |-> FALSE, start |-> 0, end |-> 0, groups |-> <<>>]

Fold(x, ic) == IF ic THEN str_lower(x) ELSE x

RECURSIVE Run(_, _, _, _, _)
\* match the sequence k of nodes against s from offset i; ic is re.IGNORECASE
Run(k, s, i, groups, ic) ==
    IF Len(k) = 0 THEN [ok |-> TRUE, start |-> 0, end |-> i, groups |-> groups]
    ELSE LET r == Head(k)
             rest == Tail(k)
         IN  CASE r.op = "cls" ->
                    IF i < Len(s) /\ Fold(Char(s, i + 1), ic) \in r.cs
                    THEN Run(rest, s, i + 1, groups, ic) ELSE NoMatch
               [] r.op = "lit" ->
                    IF /\ i + Len(r.lit) <= Len(s)
                       /\ Fold(SubSeq(s, i + 1, i + Len(r.lit)), ic) = Fold(r.lit, ic)
                    THEN Run(rest, s, i + Len(r.lit), groups, ic) ELSE NoMatch
               [] r.op = "cat" -> Run(r.rs \o rest, s, i, groups, ic)
               [] r.op = "alt" ->
                    LET m == Run(<<Head(r.rs)>> \o rest, s, i, groups, ic)
                    IN  IF m.ok THEN m
                        ELSE IF Len(r.rs) = 1 THEN NoMatch
                        ELSE Run(<<RAlt(Tail(r.rs))>> \o rest, s, i, groups, ic)
               [] r.op = "opt" ->
                    LET m == Run(r.rs \o rest, s, i, groups, ic)
                    IN  IF m.ok THEN m ELSE Run(rest, s, i, groups, ic)
               [] r.op = "star" ->
                    LET m == Run(r.rs \o <<RLoop(r, i)>> \o rest, s, i, groups, ic)
                    IN  IF m.ok THEN m ELSE Run(rest, s, i, groups, ic)
               [] r.op = "loop" ->
                    IF i > r.n THEN Run(r.rs \o rest, s, i, groups, ic) ELSE NoMatch
               [] r.op = "rep" ->
                    IF r.n = 0 THEN Run(rest, s, i, groups, ic)
                    ELSE Run(r.rs \o <<RRep(Head(r.rs), r.n - 1)>> \o rest, s, i, groups, ic)
               [] r.op = "grp" -> Run(r.rs \o <<RClose(i)>> \o rest, s, i, groups, ic)
               [] r.op = "close" ->
                    Run(rest, s, i, Append(groups, SubSeq(s, r.n + 1, i)), ic)

RECURSIVE re_search(_, _, _, _)
\* m is the attempt to match r at offset pos: the match, or the search further on
SearchFrom(m, r, s, pos, ic) ==
    IF m.ok THEN [m EXCEPT !.start = pos] ELSE re_search(r, s, pos + 1, ic)

\* the leftmost match of r in s at or after offset pos
re_search(r, s, pos, ic) ==
    IF pos > Len(s) THEN NoMatch
    ELSE SearchFrom(Run(<<r>>, s, pos, <<>>, ic), r, s, pos, ic)

RECURSIVE re_findall(_, _, _, _)
\* m is the leftmost match: its groups (the whole match when the pattern has no
\* group), then the matches after it, one character on when m is empty
FindallFrom(m, r, s, ic) ==
    IF ~m.ok THEN <<>>
    ELSE <<(IF Len(m.groups) = 0 THEN <<SubSeq(s, m.start + 1, m.end)>> ELSE m.groups)>>
         \o re_findall(r, s, (IF m.end > m.start THEN m.end ELSE m.end + 1), ic)

\* re.findall(r, s[pos:]): per match, the text of its groups (of the whole match
\* when the pattern has no group), matches taken left to right without overlap
re_findall(r, s, pos, ic) == FindallFrom(re_search(r, s, pos, ic), r, s, ic)

(***************************************************************************)
(* Numbers: Python's float() on a string of digits and dots, and the       *)
(* format specifications ",.0f" and ".2f".  A float is kept exactly, as    *)
(* n / 10^scale.                                                           *)
(***************************************************************************)
None == "<None>"

DigitVal(c) == (CHOOSE i \in 1..Len(DigitChars) : Char(DigitChars, i) = c) - 1

RECURSIVE StrToNat(_, _)
\* int(s) for a string of digits, acc the value of the digits already read
StrToNat(s, acc) ==
    IF Len(s) = 0 THEN acc ELSE StrToNat(Rest(s), acc * 10 + DigitVal(Char(s, 1)))

RECURSIVE NatToStr(_)
\* str(n)
NatToStr(n) ==
    IF n < 10 THEN Char(DigitChars, n + 1)
    ELSE NatToStr(n \div 10) \o Char(DigitChars, (n % 10) + 1)

RECURSIVE Pow10(_)
Pow10(k) == IF k = 0 THEN 1 ELSE 10 * Pow10(k - 1)

RECURSIVE CountChar(_, _)
CountChar(s, c) ==
    IF Len(s) = 0 THEN 0
    ELSE (IF Char(s, 1) = c THEN 1 ELSE 0) + CountChar(Rest(s), c)

RECURSIVE IndexOf(_, _)
\* offset of the first c in s, Len(s) when there is none
IndexOf(s, c) ==
    IF Len(s) = 0 \/ Char(s, 1) = c THEN 0 ELSE 1 + IndexOf(Rest(s), c)

\* float(s) succeeds, for s made of digits and dots
IsFloat(s) == CountChar(s, ".") <= 1 /\ \E i \in 1..Len(s) : Char(s, i) \in Digits

\* float(s), as n / 10^scale
FloatOf(s) ==
    LET dot == IndexOf(s, ".")
    IN  [n |-> StrToNat(SubSeq(s, 1, dot) \o SubSeq(s, dot + 2, Len(s)), 0),
         scale |-> Len(SubSeq(s, dot + 2, Len(s)))]

\* round(num / den) with ties to even, as the f format rounds
RoundHalfEven(num, den) ==
    LET q == num \div den
        r == num % den
    IN  IF 2 * r > den \/ (2 * r = den /\ q % 2 = 1) THEN q + 1 ELSE q

RECURSIVE Grouped(_)
\* the digits of n with thousands separators
Grouped(n) ==
    IF n < 1000 THEN NatToStr(n)
    ELSE LET low == n % 1000
         IN  Grouped(n \div 1000) \o ","
             \o (IF low < 10 THEN "00" ELSE IF low < 100 THEN "0" ELSE "") \o NatToStr(low)

\* f"{x:,.0f}"
FormatGrouped(x) == Grouped(RoundHalfEven(x.n, Pow10(x.scale)))

\* an amount of cents with two decimals
CentsStr(cents) ==
    NatToStr(cents \div 100) \o "." \o (IF cents % 100 < 10 THEN "0" ELSE "")
    \o NatToStr(cents % 100)

\* f"{x:.2f}"
FormatCents(x) == CentsStr(RoundHalfEven(x.n * 100, Pow10(x.scale)))

(***************************************************************************)
(* Price extraction  (src/utils/extract_price.py)                          *)
(***************************************************************************)
NumberChars == Digits \cup {"."}

\* lines 146-151: the format chosen by the size of the amount
FormatPrice(price_float) ==
    IF price_float.n >= 1000 * Pow10(price_float.scale)
    THEN "$" \o FormatGrouped(price_float)
    ELSE "$" \o FormatCents(price_float)

\* lines 142-153, price being price_str without its currency symbols and commas:
\* a price that float() rejects is returned as it came
NormalizeDigits(price_str, price) ==
    IF ~IsFloat(price) THEN price_str ELSE FormatPrice(FloatOf(price))

normalize_price(price_str) ==
    IF Len(price_str) = 0 THEN ""
    ELSE NormalizeDigits(price_str, KeepChars(price_str, NumberChars))

price_keywords ==
    <<"price", "cost", "fee", "charge", "setup", "monthly", "annual",
      "subscription", "license", "package", "plan", "tier">>

\* 1 <= price_value <= 1000000
is_reasonable_value(price_value) ==
    /\ Pow10(price_value.scale) <= price_value.n
    /\ price_value.n <= 1000000 * Pow10(price_value.scale)

has_price_keywords(context) == AnyIn(price_keywords, str_lower(context))

\* lines 165-185, digits being the price without its symbols and commas
LikelyDigits(digits, context) ==
    IF ~IsFloat(digits) THEN FALSE
    ELSE has_price_keywords(context) /\ is_reasonable_value(FloatOf(digits))

is_likely_price(price, context) == LikelyDigits(KeepChars(price, NumberChars), context)

\* \d
ReDigit == RCls(Digits)

\* \s*
ReSpaces == RStar(RCls(Whitespace))

\* (?:\.\d{2})?
ReCents == ROpt(RCat(<<RLit("."), RRep(ReDigit, 2)>>))

\* ([\d,]+(?:\.\d{2})?)
ReLooseAmount == RGrp(RCat(<<RPlus(RCls(Digits \cup {","})), ReCents>>))

\* (\d+(?:,\d{3})*(?:\.\d{2})?)
ReAmount ==
    RGrp(RCat(<<RPlus(ReDigit), RStar(RCat(<<RLit(","), RRep(ReDigit, 3)>>)), ReCents>>))

\* [:\-]?
ReColonDash == ROpt(RCls({":", "-"}))

\* (?:a|b|...)
ReWords(ws) == RAlt([i \in 1..Len(ws) |-> RLit(ws[i])])

price_patterns ==
    << RCat(<<RLit("$"), ReSpaces, ReLooseAmount>>),
       RCat(<<RLit("USD"), ReSpaces, ReLooseAmount>>),
       RCat(<<ReAmount, ReSpaces, RLit("dollar"), ROpt(RLit("s"))>>),
       RCat(<<RLit("€"), ReSpaces, ReLooseAmount>>),
       RCat(<<RLit("EUR"), ReSpaces, ReLooseAmount>>),
       RCat(<<ReAmount, ReSpaces, RLit("euro"), ROpt(RLit("s"))>>),
       RCat(<<RLit("£"), ReSpaces, ReLooseAmount>>),
       RCat(<<RLit("GBP"), ReSpaces, ReLooseAmount>>),
       RCat(<<ReAmount, ReSpaces, RLit("pound"), ROpt(RLit("s"))>>),
       RCat(<<ReAmount, ReSpaces, ReWords(<<"price", "cost", "fee", "charge">>)>>),
       RCat(<<ReWords(<<"price", "cost", "fee", "charge">>), ReSpaces, ReColonDash,
              ReSpaces, ReAmount>>),
       RCat(<<ReAmount, ReSpaces, RLit("-"), ReSpaces, ReAmount>>),
       RCat(<<RLit("from"), ReSpaces, ReAmount, ReSpaces, RLit("to"), ReSpaces, ReAmount>>),
       RCat(<<ReAmount, ReSpaces, RLit("per"), ReSpaces, ReWords(<<"month", "year", "annum">>)>>),
       RCat(<<ReAmount, ReSpaces, ReWords(<<"monthly", "yearly", "annual">>)>>),
       RCat(<<RLit("setup"), ReSpaces, ReWords(<<"fee", "cost">>), ReSpaces, ReColonDash,
              ReSpaces, ReAmount>>),
       RCat(<<ReAmount, ReSpaces, RLit("setup")>> ) >>

\* (\d{4,}(?:,\d{3})*(?:\.\d{2})?)
large_number_pattern ==
    RGrp(RCat(<<RAtLeast(ReDigit, 4), RStar(RCat(<<RLit(","), RRep(ReDigit, 3)>>)), ReCents>>))

RECURSIVE NormalizedGroups(_)
\* the non-empty groups of one match, normalized
NormalizedGroups(groups) ==
    IF Len(groups) = 0 THEN <<>>
    ELSE (IF Len(Head(groups)) > 0 THEN <<normalize_price(Head(groups))>> ELSE <<>>)
         \o NormalizedGroups(Tail(groups))

RECURSIVE PricesOfMatches(_)
\* lines 98-105: a tuple (a pattern of two groups) gives its non-empty groups,
\* a single string gives itself
PricesOfMatches(matches) ==
    IF Len(matches) = 0 THEN <<>>
    ELSE (IF Len(Head(matches)) > 1 THEN NormalizedGroups(Head(matches))
          ELSE <<normalize_price(Head(matches)[1])>>)
         \o PricesOfMatches(Tail(matches))

RECURSIVE PricesOfPatterns(_, _)
\* lines 96-105, over the patterns in order
PricesOfPatterns(patterns, cleaned_text) ==
    IF Len(patterns) = 0 THEN <<>>
    ELSE PricesOfMatches(re_findall(Head(patterns), cleaned_text, 0, TRUE))
         \o PricesOfPatterns(Tail(patterns), cleaned_text)

\* lines 94-111: the candidates, in the order found
\* lines 108-111: the large numbers are searched when no pattern found a price
LargeNumbersIfNone(by_pattern, cleaned_text) ==
    IF Len(by_pattern) > 0 THEN by_pattern
    ELSE PricesOfMatches(re_findall(large_number_pattern, cleaned_text, 0, FALSE))

found_prices(cleaned_text) ==
    LargeNumbersIfNone(PricesOfPatterns(price_patterns, cleaned_text), cleaned_text)

\* lines 113-123: the first likely price, else the first price, else None;
\* likely holds the positions in found of the likely prices
FirstLikely(found, likely) ==
    IF Len(found) = 0 THEN None
    ELSE IF likely # {} THEN found[CHOOSE i \in likely : \A j \in likely : i <= j]
    ELSE found[1]

\* a variant of lines 113-123 that returns the first price found
PickPrice_first(found, cleaned_text) == IF Len(found) = 0 THEN None ELSE found[1]

PickPrice(found, cleaned_text) ==
    FirstLikely(found, {i \in 1..Len(found) : is_likely_price(found[i], cleaned_text)})

\* lines 57-123 on the cleaned text
PriceOfCleaned(cleaned_text) == PickPrice(found_prices(cleaned_text), cleaned_text)

extract_price_from_text(text) ==
    IF Len(text) = 0 THEN None ELSE PriceOfCleaned(clean_text(text))

(***************************************************************************)
(* Python dicts                                                            *)
(***************************************************************************)
\* a dict that is None
NoneDict == [none |-> None]

\* d1.update(d2) / {**d1, **d2}
DictUpdate(d1, d2) ==
    [k \in DOMAIN d1 \cup DOMAIN d2 |-> IF k \in DOMAIN d2 THEN d2[k] ELSE d1[k]]

\* d.get(k), with None for a missing key
DictGet(d, k) == IF k \in DOMAIN d THEN d[k] ELSE None

(***************************************************************************)
(* ModelManager: the pure parts  (src/utils/model_manager.py)              *)
(***************************************************************************)
RECURSIVE SkipWord(_)
SkipWord(s) ==
    IF Len(s) > 0 /\ Char(s, 1) \notin Whitespace THEN SkipWord(Rest(s)) ELSE s

RECURSIVE str_split(_)
\* str.split(): the maximal runs of non-whitespace
str_split(s) ==
    LET t == SkipSpace(s)
    IN  IF Len(t) = 0 THEN <<>>
        ELSE <<SubSeq(t, 1, Len(t) - Len(SkipWord(t)))>> \o str_split(SkipWord(t))

RECURSIVE str_join(_)
\* " ".join(words)
str_join(words) ==
    IF Len(words) = 0 THEN ""
    ELSE IF Len(words) = 1 THEN Head(words)
    ELSE Head(words) \o " " \o str_join(Tail(words))

chunk_max_length == 256

RECURSIVE SplitChunks(_, _, _, _)
\* the loop of _split_text_into_chunks and the flush that follows it
SplitChunks(words, current_chunk, current_length, max_length) ==
    IF Len(words) = 0
    THEN (IF Len(current_chunk) > 0 THEN <<str_join(current_chunk)>> ELSE <<>>)
    ELSE LET word == Head(words)
         IN  IF current_length + Len(word) + 1 > max_length
             THEN (IF Len(current_chunk) > 0 THEN <<str_join(current_chunk)>> ELSE <<>>)
                  \o SplitChunks(Tail(words), <<word>>, Len(word), max_length)
             ELSE SplitChunks(Tail(words), Append(current_chunk, word),
                              current_length + Len(word) + 1, max_length)

_split_text_into_chunks(text, max_length) ==
    SplitChunks(str_split(text), <<>>, 0, max_length)

\* the keywords are looked up in the lowered text, upper-case ones included
_contains_price_info(text) ==
    AnyIn(<<"$", "€", "USD", "EUR", "price", "cost", "fee", "monthly", "setup">>,
          str_lower(text))

\* [\d,]+(?:\.\d{2})?
ReChunkAmount == RCat(<<RPlus(RCls(Digits \cup {","})), ReCents>>)

chunk_price_patterns ==
    << RCat(<<RLit("$"), ReChunkAmount>>),
       RCat(<<RLit("€"), ReChunkAmount>>),
       RCat(<<ReChunkAmount, ReSpaces, ReWords(<<"USD", "EUR", "GBP">>)>>),
       RCat(<<ReChunkAmount, ReSpaces,
              RAlt(<<RCat(<<RLit("dollar"), ROpt(RLit("s"))>>),
                     RCat(<<RLit("euro"), ROpt(RLit("s"))>>),
                     RCat(<<RLit("pound"), ROpt(RLit("s"))>>)>>)>>) >>

RECURSIVE FirstPatternMatch(_, _)
\* matches[0].strip() when the pattern at hand matched, else the next patterns
FirstOfMatches(matches, patterns, chunk) ==
    IF Len(matches) > 0 THEN str_strip(matches[1][1])
    ELSE FirstPatternMatch(Tail(patterns), chunk)

\* the inner loop of _extract_price_from_chunks over one chunk
FirstPatternMatch(patterns, chunk) ==
    IF Len(patterns) = 0 THEN None
    ELSE FirstOfMatches(re_findall(Head(patterns), chunk, 0, TRUE), patterns, chunk)

RECURSIVE _extract_price_from_chunks(_)
\* m is what the patterns found in the first chunk, None to go on to the next
FirstOfChunks(m, chunks) ==
    IF m # None THEN m ELSE _extract_price_from_chunks(Tail(chunks))

_extract_price_from_chunks(chunks) ==
    IF Len(chunks) = 0 THEN None
    ELSE FirstOfChunks(FirstPatternMatch(chunk_price_patterns, Head(chunks)), chunks)

\* the categories in the order the dict module_keywords declares them
module_names ==
    <<"Wallet Base", "KYC/KYB", "Trading Platform", "Payment Gateway", "White Label Solution">>

module_keywords ==
    [m \in {module_names[i] : i \in 1..Len(module_names)} |->
       CASE m = "Wallet Base" -> <<"wallet", "crypto", "digital currency">>
         [] m = "KYC/KYB" -> <<"kyc", "kyb", "verification", "identity", "compliance">>
         [] m = "Trading Platform" -> <<"trading", "exchange", "broker", "market">>
         [] m = "Payment Gateway" -> <<"payment", "gateway", "transaction", "processing">>
         [] m = "White Label Solution" -> <<"white label", "whitelabel", "customizable">>]

\* score / len(keywords), kept as the fraction num / den
KeywordScore(keywords, text_lower) ==
    [num |-> Cardinality({i \in 1..Len(keywords) : Contains(text_lower, keywords[i])}),
     den |-> Len(keywords)]

ScoreLess(a, b) == a.num * b.den < b.num * a.den

\* a variant of max() that gives the last of the largest
BestModule_last(scores) ==
    LET i == CHOOSE i \in 1..Len(module_names) :
                 /\ \A j \in 1..Len(module_names) :
                       ~ScoreLess(scores[module_names[i]], scores[module_names[j]])
                 /\ \A j \in (i + 1)..Len(module_names) :
                       ScoreLess(scores[module_names[j]], scores[module_names[i]])
    IN  module_names[i]

\* max(scores.items(), key=lambda x: x[1]): the first of the largest, in dict order
BestModule(scores) ==
    LET i == CHOOSE i \in 1..Len(module_names) :
                 /\ \A j \in 1..Len(module_names) :
                       ~ScoreLess(scores[module_names[i]], scores[module_names[j]])
                 /\ \A j \in 1..(i - 1) :
                       ScoreLess(scores[module_names[j]], scores[module_names[i]])
    IN  module_names[i]

_process_classification_output(text) ==
    LET text_lower == str_lower(text)
        scores == [m \in DOMAIN module_keywords |-> KeywordScore(module_keywords[m], text_lower)]
        best_module == BestModule(scores)
        best == scores[best_module]
    IN  [clasificacion_modulo |-> IF best.num > 0 THEN best_module ELSE "General Service",
         confianza_analisis |-> IF 2 * best.num > best.den THEN "alta" ELSE "media",
         scores |-> scores]

\* ModelManager._get_fallback_analysis
mm_get_fallback_analysis ==
    [clasificacion_modulo |-> "No clasificado",
     confianza_analisis |-> "baja",
     error |-> "Modelo local no disponible"]

(***************************************************************************)
(* OptimizedAnalyzer: the pure parts  (src/utils/optimized_analyzer.py)    *)
(***************************************************************************)
_extract_basic_conditions(text) ==
    LET text_lower == str_lower(text)
        Has(w) == Contains(text_lower, w)
    IN  [setup_fee |-> IF Has("setup") /\ Has("fee") THEN "Mencionado" ELSE "No especificado",
         monthly_cost |-> IF Has("monthly") /\ Has("cost") THEN "Mencionado" ELSE "No especificado",
         transaction_fees |->
             IF Has("transaction") /\ Has("fee") THEN "Mencionado" ELSE "No especificado",
         minimum_requirements |-> "No especificado",
         contract_terms |-> "No especificado"]

_get_fallback_analysis ==
    [precio_estimado |-> "No especificado",
     clasificacion_modulo |-> "No clasificado",
     confianza_analisis |-> "baja",
     condiciones_comerciales |->
        [setup_fee |-> "No especificado",
         monthly_cost |-> "No especificado",
         transaction_fees |-> "No especificado",
         minimum_requirements |-> "No especificado",
         contract_terms |-> "No especificado"]]

\* the if/elif chain of _basic_analysis
BasicModule(text_lower) ==
    IF AnyIn(<<"wallet", "crypto">>, text_lower) THEN "Wallet Base"
    ELSE IF AnyIn(<<"kyc", "kyb", "verification">>, text_lower) THEN "KYC/KYB"
    ELSE IF AnyIn(<<"trading", "exchange">>, text_lower) THEN "Trading Platform"
    ELSE IF AnyIn(<<"payment", "gateway">>, text_lower) THEN "Payment Gateway"
    ELSE IF AnyIn(<<"white label", "whitelabel">>, text_lower) THEN "White Label Solution"
    ELSE "General Service"

\* lines 301-306: the dict returned, price being what extract_price_from_text gave
BasicResult(price, text) ==
    [precio_estimado |-> IF price # None /\ Len(price) > 0 THEN price ELSE "No especificado",
     clasificacion_modulo |-> BasicModule(str_lower(text)),
     confianza_analisis |-> "baja",
     condiciones_comerciales |-> _extract_basic_conditions(text)]

_basic_analysis(text) == BasicResult(extract_price_from_text(text), text)

(***************************************************************************)
(* Inputs and bounds                                                       *)
(***************************************************************************)
\* a text that is not a str and cannot be hashed (a list): hash(text) raises
UnhashableText == "<unhashable>"

\* a text that clean_text leaves as it is, and the normalized form of another
NormalizedText == "Crypto wallet setup fee $50000"

Texts == {"", "Crypto wallet: setup fee $50,000", NormalizedText, UnhashableText}

Sources == {"unknown", "site"}

\* the longest input list of one batch call
MaxBatch == 2

\* the number of analyze_text_optimized tasks created in one run
MaxTasks == 2

\* self.cache_ttl
cache_ttl == 3600

\* the readings of time.time(): between two of them lie 1 second (a fresh
\* entry), cache_ttl seconds (the boundary) or cache_ttl + 1 seconds (expired)
Times == {0, 1, cache_ttl + 1}

\* the largest max_size given to optimize_cache
MaxSizeArg == 1

EmptyDict == <<>>

ModelTasks == {"classification", "embedding"}

(***************************************************************************)
(* The pure functions on the texts of the model, computed once             *)
(***************************************************************************)
StrTexts == Texts \ {UnhashableText}

CleanTexts == {clean_text(t) : t \in StrTexts}

CleanTable == [t \in StrTexts |-> clean_text(t)]

BasicTable == [t \in CleanTexts |-> _basic_analysis(t)]

ConditionsTable == [t \in CleanTexts |-> _extract_basic_conditions(t)]

ClassificationTable == [t \in CleanTexts |-> _process_classification_output(t)]

\* lines 294-317 of extract_price_with_bert without the calls of the model:
\* the number of chunks and the price of the chunks that mention one
PriceOfChunks(price_chunks) ==
    IF Len(price_chunks) > 0 THEN _extract_price_from_chunks(price_chunks) ELSE None

ChunkPriceOf(chunks) ==
    [chunks |-> Len(chunks),
     price |-> PriceOfChunks(SelectSeq(chunks, _contains_price_info))]

ChunkPrice(text) == ChunkPriceOf(_split_text_into_chunks(text, chunk_max_length))

ChunkPriceTable == [t \in CleanTexts |-> ChunkPrice(t)]

(***************************************************************************)
(* ModelManager: loading and running a local model.  What the libraries    *)
(* and the file system do is the environment's choice, env:                *)
(*   env.load         how loading a model ends in this call: "ok", "early" *)
(*                    (fails before the tokenizer is kept) or "late"       *)
(*                    (fails after it)                                     *)
(*   env.infer[task]  whether tokenizing and running the model succeed     *)
(* A model that is loaded has its tokenizer, so "early" and "late" differ  *)
(* in nothing a call can observe, and the environment chooses between "ok" *)
(* and "early"; inference works or fails for both models of one call.      *)
(* The manager's state mm holds loaded_models ("absent" for a missing key, *)
(* "None", or "model"), tokenizers, and cache_dirs, whether the model's    *)
(* cache_path exists on disk.                                              *)
(***************************************************************************)
\* the outcomes of loading a model that the environment of the model chooses from
LoadOutcomes == {"ok", "early"}

LocalEnvs == [load : LoadOutcomes, infer : {[t \in ModelTasks |-> b] : b \in BOOLEAN}]

\* ModelManager.__init__, dirs telling which cache paths exist already
NewManager(dirs) ==
    [loaded_models |-> [t \in ModelTasks |-> "absent"],
     tokenizers |-> [t \in ModelTasks |-> FALSE],
     cache_dirs |-> dirs]

\* _load_from_cache: a failure is swallowed and None returned
_load_from_cache(mm, model_type, outcome) ==
    [mm |-> [mm EXCEPT !.tokenizers[model_type] = @ \/ outcome # "early"],
     model |-> IF outcome = "ok" THEN "model" ELSE "None",
     raised |-> FALSE]

\* _download_and_cache_model: the directory is made first, a failure propagates
_download_and_cache_model(mm, model_type, outcome) ==
    [mm |-> [mm EXCEPT !.cache_dirs[model_type] = TRUE,
                       !.tokenizers[model_type] = @ \/ outcome # "early"],
     model |-> IF outcome = "ok" THEN "model" ELSE "None",
     raised |-> outcome # "ok"]

\* load_model, lines 106-111: what was loaded is kept in loaded_models, a None
\* too; an exception of the download leaves loaded_models as it was
keep_loaded(got, model_type) ==
    IF got.raised THEN got
    ELSE [got EXCEPT !.mm.loaded_models[model_type] = got.model]

load_model(mm, model_type, outcome) ==
    IF mm.loaded_models[model_type] # "absent"
    THEN [mm |-> mm, model |-> mm.loaded_models[model_type], raised |-> FALSE]
    ELSE keep_loaded(IF mm.cache_dirs[model_type]
                     THEN _load_from_cache(mm, model_type, outcome)
                     ELSE _download_and_cache_model(mm, model_type, outcome),
                     model_type)

\* the value of outputs.last_hidden_state...shape[1], opaque to the code
embedding_dim == "embedding_dim"

_process_embedding_output(text) ==
    [embedding |-> "embedding", embedding_dim |-> embedding_dim, text_length |-> Len(text)]

\* analyze_text_with_local_model after load_model, lines 197-224: a model that
\* is missing and an exception of the tokenizer or of the model give the
\* fallback analysis
run_local_model(loaded, text, task, env) ==
    [mm |-> loaded.mm,
     result |-> IF \/ loaded.raised
                   \/ loaded.model # "model"
                   \/ ~loaded.mm.tokenizers[task]
                   \/ ~env.infer[task]
                THEN mm_get_fallback_analysis
                ELSE IF task = "classification" THEN ClassificationTable[text]
                ELSE _process_embedding_output(text)]

analyze_text_with_local_model(mm, text, task, env) ==
    run_local_model(load_model(mm, task, env.load), text, task, env)

\* extract_price_with_bert after load_model, lines 284-321: tokenizing or
\* running the first chunk raises when the model is missing, and the exception
\* gives None
run_price_model(loaded, chunked, env) ==
    [mm |-> loaded.mm,
     result |-> IF \/ loaded.raised
                   \/ /\ chunked.chunks > 0
                      /\ \/ loaded.model # "model"
                         \/ ~loaded.mm.tokenizers["classification"]
                         \/ ~env.infer["classification"]
                THEN None
                ELSE chunked.price]

extract_price_with_bert(mm, text, env) ==
    run_price_model(load_model(mm, "classification", env.load), ChunkPriceTable[text], env)

(***************************************************************************)
(* OptimizedAnalyzer: the stages of the cascade                            *)
(***************************************************************************)
\* lines 172-183: the three results combined
local_combined(classification_result, price_result, embedding, text) ==
    [mm |-> embedding.mm,
     result |->
        [clasificacion_modulo |-> DictGet(classification_result, "clasificacion_modulo"),
         confianza_analisis |-> DictGet(classification_result, "confianza_analisis"),
         precio_estimado |-> IF price_result # None /\ Len(price_result) > 0
                             THEN price_result ELSE "No especificado",
         embedding_info |-> DictGet(embedding.result, "embedding_dim"),
         scores |-> IF "scores" \in DOMAIN classification_result
                    THEN classification_result.scores ELSE EmptyDict,
         condiciones_comerciales |-> ConditionsTable[text]]]

\* lines 167-169, the embedding, on the manager as the price extraction left it
local_embedding(classification, price, text, env) ==
    local_combined(classification.result, price.result,
                   analyze_text_with_local_model(price.mm, text, "embedding", env), text)

\* line 164, the price, on the manager as the classification left it
local_price(classification, text, env) ==
    local_embedding(classification, extract_price_with_bert(classification.mm, text, env),
                    text, env)

_analyze_with_local_models(mm, text, env) ==
    local_price(analyze_text_with_local_model(mm, text, "classification", env), text, env)

(***************************************************************************)
(* The remote reply.  A reply is what _call_gpt_async and wait_for give:   *)
(*   kind "error"    the call failed, _call_gpt_async returned None        *)
(*   kind "timeout"  wait_for raised TimeoutError                          *)
(*   kind "text"     a string: fence tells whether it starts with ```json  *)
(*                   ("json"), with a bare ``` ("bare") or has no fence    *)
(*                   ("none"); body is what json.loads makes of the text   *)
(*                   between the fences                                    *)
(* A body is [json, dict]: json "dict" (a JSON object, dict its content),  *)
(* "null", "list" (a non-empty array) or "invalid" (not JSON).             *)
(***************************************************************************)
JsonValue(json, dict) == [json |-> json, dict |-> dict]

Reply(kind, fence, body) == [kind |-> kind, fence |-> fence, body |-> body]

FullPayload ==
    [precio_estimado |-> "$9,999",
     clasificacion_modulo |-> "Compliance",
     condiciones_comerciales |->
        [setup_fee |-> "$9,999", monthly_cost |-> "$99", transaction_fees |-> "1%",
         minimum_requirements |-> "none", contract_terms |-> "annual"],
     confianza_analisis |-> "alta"]

\* a reply that leaves out the price and the confidence, gives one commercial
\* term only, a null, and carries an analysis_method of its own
PartialPayload ==
    [clasificacion_modulo |-> "Compliance",
     condiciones_comerciales |-> [setup_fee |-> None],
     analysis_method |-> "remote"]

JsonBodies ==
    {JsonValue("dict", FullPayload), JsonValue("dict", PartialPayload),
     JsonValue("dict", EmptyDict),
     JsonValue("null", EmptyDict), JsonValue("list", EmptyDict),
     JsonValue("invalid", EmptyDict)}

GptReplies ==
    {Reply("error", "none", JsonValue("null", EmptyDict)),
     Reply("timeout", "none", JsonValue("null", EmptyDict))}
    \cup {Reply("text", "none", b) : b \in JsonBodies}
    \cup {Reply("text", f, JsonValue("dict", FullPayload)) : f \in {"json", "bare"}}

\* _parse_gpt_response: the fences are stripped only after ```json, and text that
\* json.loads rejects gives the fallback analysis
_parse_gpt_response(response) ==
    IF response.fence = "bare" \/ response.body.json = "invalid"
    THEN JsonValue("dict", _get_fallback_analysis)
    ELSE response.body

\* bool(value) for a parsed JSON value
Truthy(value) ==
    \/ value.json = "list"
    \/ value.json = "dict" /\ DOMAIN value.dict # {}

\* a variant of _analyze_with_gpt that answers a failed call with the fallback
\* analysis instead of None
_analyze_with_gpt_sentinel(reply) ==
    IF reply.kind # "text" THEN JsonValue("dict", _get_fallback_analysis)
    ELSE _parse_gpt_response(reply)

\* _analyze_with_gpt after the call: None when the call failed (response is
\* None) or timed out (line 207 catches TimeoutError), or the parsed reply
_analyze_with_gpt(reply) ==
    IF reply.kind # "text" THEN JsonValue("null", EmptyDict)
    ELSE _parse_gpt_response(reply)

\* how the remote call ended, as the claims name it: "error", "timeout",
\* "malformed" (text that json.loads rejects) or "json" (text that it parses)
remote_outcome(reply) ==
    IF reply.kind # "text" THEN reply.kind
    ELSE IF reply.fence = "bare" \/ reply.body.json = "invalid" THEN "malformed"
    ELSE "json"

(***************************************************************************)
(* Pricing terms and price validation  (src/utils/extract_price.py)        *)
(***************************************************************************)
\* currency_map, in the order of the dict
currency_map ==
    << <<"dollar", "USD">>, <<"dollars", "USD">>, <<"$", "USD">>, <<"usd", "USD">>,
       <<"euro", "EUR">>, <<"euros", "EUR">>, <<"€", "EUR">>, <<"eur", "EUR">>,
       <<"pound", "GBP">>, <<"pounds", "GBP">>, <<"£", "GBP">>, <<"gbp", "GBP">>,
       <<"yen", "JPY">>, <<"¥", "JPY">>, <<"jpy", "JPY">> >>

RECURSIVE FirstCurrency(_, _)
\* lines 257-259: the code of the first name that the lowered text contains
FirstCurrency(names, text_lower) ==
    IF Len(names) = 0 THEN None
    ELSE IF Contains(text_lower, Head(names)[1]) THEN Head(names)[2]
    ELSE FirstCurrency(Tail(names), text_lower)

extract_currency(text) ==
    IF Len(text) = 0 THEN None ELSE FirstCurrency(currency_map, str_lower(text))

\* .  (any character but a newline), among the characters clean_text leaves
ReAnyChar == RCls(CleanKeep \ {"\n"})

\* (\d+(?:\.\d+)?%)
RePercent ==
    RGrp(RCat(<<RPlus(ReDigit), ROpt(RCat(<<RLit("."), RPlus(ReDigit)>>)), RLit("%")>>))

setup_patterns ==
    << RCat(<<RLit("setup"), ReSpaces, ReWords(<<"fee", "cost">>), ReSpaces, ReColonDash,
              ReSpaces, ReAmount>>),
       RCat(<<ReAmount, ReSpaces, RLit("setup")>>),
       RCat(<<RLit("one"), ROpt(ReAnyChar), RLit("time"), ReSpaces, ReWords(<<"fee", "cost">>),
              ReSpaces, ReColonDash, ReSpaces, ReAmount>>) >>

monthly_patterns ==
    << RCat(<<ReAmount, ReSpaces, RLit("per"), ReSpaces, RLit("month")>>),
       RCat(<<ReAmount, ReSpaces, RLit("monthly")>>),
       RCat(<<RLit("monthly"), ReSpaces, ReWords(<<"cost", "fee", "charge">>), ReSpaces,
              ReColonDash, ReSpaces, ReAmount>>) >>

annual_patterns ==
    << RCat(<<ReAmount, ReSpaces, RLit("per"), ReSpaces, RLit("year")>>),
       RCat(<<ReAmount, ReSpaces, RLit("annual")>>),
       RCat(<<RLit("annual"), ReSpaces, ReWords(<<"cost", "fee", "charge">>), ReSpaces,
              ReColonDash, ReSpaces, ReAmount>>) >>

transaction_patterns ==
    << RCat(<<RePercent, ReSpaces, RLit("per"), ReSpaces, RLit("transaction")>>),
       RCat(<<RLit("transaction"), ReSpaces, RLit("fee"), ReSpaces, ReColonDash, ReSpaces,
              RePercent>>),
       RCat(<<ReAmount, ReSpaces, RLit("per"), ReSpaces, RLit("transaction")>>) >>

RECURSIVE FirstGroup(_, _)
\* m is re.search of the pattern at hand: its group 1, else the next patterns
FirstGroupOf(m, patterns, text_lower) ==
    IF m.ok THEN m.groups[1] ELSE FirstGroup(Tail(patterns), text_lower)

\* the loops over setup_patterns, monthly_patterns, ...: match.group(1) of the
\* first pattern that re.search finds, None when none does
FirstGroup(patterns, text_lower) ==
    IF Len(patterns) = 0 THEN None
    ELSE FirstGroupOf(re_search(Head(patterns), text_lower, 0, FALSE), patterns, text_lower)

\* terms[...] = normalize_price(match.group(1)), the term staying None without a match
NormalizedTerm(group) == IF group = None THEN None ELSE normalize_price(group)

\* lines 339-347
billing_cycle(text_lower) ==
    IF AnyIn(<<"monthly", "per month">>, text_lower) THEN "monthly"
    ELSE IF AnyIn(<<"annual", "yearly", "per year">>, text_lower) THEN "annual"
    ELSE IF AnyIn(<<"quarterly", "per quarter">>, text_lower) THEN "quarterly"
    ELSE None

\* lines 279-349, text_lower being the cleaned text lowered
PricingTerms(text_lower, text) ==
    [setup_fee |-> NormalizedTerm(FirstGroup(setup_patterns, text_lower)),
     monthly_cost |-> NormalizedTerm(FirstGroup(monthly_patterns, text_lower)),
     annual_cost |-> NormalizedTerm(FirstGroup(annual_patterns, text_lower)),
     transaction_fees |-> FirstGroup(transaction_patterns, text_lower),
     minimum_requirements |-> None,
     billing_cycle |-> billing_cycle(text_lower),
     currency |-> extract_currency(text)]

extract_pricing_terms(text) ==
    IF Len(text) = 0 THEN EmptyDict ELSE PricingTerms(str_lower(clean_text(text)), text)

\* the price_keywords of validate_price_extraction
validation_keywords == <<"price", "cost", "fee", "charge", "setup", "monthly">>

\* a float of one decimal, as n / 10^scale
Tenths(n) == [n |-> n, scale |-> 1]

\* a < b for two floats
FloatLess(a, b) == a.n * Pow10(b.scale) < b.n * Pow10(a.scale)

\* lines 390-395: 0.2 for each keyword in the lowered text, and min(..., 1.0).
\* (The binary sum of three 0.2 is 0.6000000000000001; no comparison of the
\* function tells it from 0.6.)
context_confidence(text_lower) ==
    LET context_score ==
            2 * Cardinality({i \in 1..Len(validation_keywords) :
                                Contains(text_lower, validation_keywords[i])})
    IN  Tenths(IF context_score < 10 THEN context_score ELSE 10)

\* lines 380-384
price_issues(price_value) ==
    IF ~FloatLess(Tenths(0), price_value) THEN <<"Precio debe ser mayor a 0">>
    ELSE IF FloatLess([n |-> 1000000, scale |-> 0], price_value)
    THEN <<"Precio parece demasiado alto">>
    ELSE <<>>

\* lines 401-405
price_suggestions(confidence, price_value) ==
    (IF FloatLess(confidence, Tenths(5)) THEN <<"Revisar contexto del precio">> ELSE <<>>)
    \o (IF FloatLess(price_value, Tenths(10))
        THEN <<"Verificar si el precio está en la moneda correcta">> ELSE <<>>)

\* lines 380-405 for a price that float() accepted
ValidationOf(price_value, confidence) ==
    [is_valid |-> Len(price_issues(price_value)) = 0 /\ FloatLess(Tenths(3), confidence),
     confidence |-> confidence,
     issues |-> price_issues(price_value),
     suggestions |-> price_suggestions(confidence, price_value)]

\* lines 376-409, digits being the price without all but its digits and dots:
\* the ValueError of float() is caught and becomes an issue (its message, which
\* quotes the string, is cut to its fixed head)
ValidateDigits(digits, text) ==
    IF ~IsFloat(digits)
    THEN [is_valid |-> FALSE, confidence |-> Tenths(0),
          issues |-> <<"Error procesando precio">>, suggestions |-> <<>>]
    ELSE ValidationOf(FloatOf(digits), context_confidence(str_lower(text)))

\* validate_price_extraction for a text that is a str and a price that is a
\* str or None
validate_price_extraction(text, extracted_price) ==
    IF extracted_price = None \/ Len(extracted_price) = 0
    THEN [is_valid |-> FALSE, confidence |-> Tenths(0),
          issues |-> <<"No se encontró precio">>, suggestions |-> <<>>]
    ELSE ValidateDigits(KeepChars(extracted_price, NumberChars), text)

(***************************************************************************)
(* The analyzer as a state machine                                         *)
(***************************************************************************)
VARIABLES
    use_local_models,   \* self.use_local_models
    use_gpt,            \* self.use_gpt
    model_manager,      \* self.model_manager: "unset" (no attribute), "None" or "manager"
    openai_available,   \* self.openai_available: "unset" (no attribute), "true" or "false"
    mm_state,           \* the ModelManager's loaded_models, tokenizers, cache_dirs
    analysis_cache,     \* self.analysis_cache: key -> [result, timestamp]
    now,                \* time.time()
    phase,              \* "idle", "running" (inside analyze_batch_optimized) or "returned"
    tasks,              \* the tasks of the current batch call, in input order
    processed_results,  \* what the last batch call returned
    created,            \* the number of tasks created so far
    history,            \* key -> [result, at]: what the last call that ran the cascade
                        \* for the key returned and when, forgotten by clear_cache
                        \* and optimize_cache
    completed,          \* method -> the number of analyze_text_optimized calls that
                        \* have returned a record with that analysis_method
    stats_result,       \* what get_analysis_stats returned in the step just taken,
                        \* NoStats after any other step
    pure_input,         \* the function of the modules and the arguments it is called
                        \* with, when one is called on its own
    pure_output         \* what that call returned

vars ==
    <<use_local_models, use_gpt, model_manager, openai_available, mm_state,
      analysis_cache, now, phase, tasks, processed_results, created, history,
      completed, stats_result, pure_input, pure_output>>

pure == <<pure_input, pure_output>>

\* no function is called on its own
NoInput == [fn |-> "none"]

NotCalled == [called |-> FALSE]

config == <<use_local_models, use_gpt, model_manager, openai_available>>

\* hash(text): an integer fixed by the string; the texts of the model have
\* pairwise different hashes, so the string stands for its hash
py_hash(text) == text

\* f"{hash(text)}_{source}": no integer has an underscore, so the pair is kept
cache_key(text, source) == <<py_hash(text), source>>

\* a variant of the lookup that finds no entry fresh
cache_hit_never(cache, key, time) == FALSE

\* a variant of the lookup that does not look at the age of the entry
cache_hit_no_ttl(cache, key, time) == key \in DOMAIN cache

\* lines 82-84: the key is cached and younger than the TTL
cache_hit(cache, key, time) ==
    key \in DOMAIN cache /\ time - cache[key].timestamp < cache_ttl

\* a variant of line 86 that tags what it serves
cached_result_tagged(cache, key) == [cache[key].result EXCEPT !.analysis_method = "cache"]

\* line 86
cached_result(cache, key) == cache[key].result

\* a variant of lines 95-98 that keeps no result of the basic stage
cache_store_no_basic(cache, key, analysis_result, time) ==
    IF DictGet(analysis_result, "analysis_method") = "basic" THEN cache
    ELSE (key :> [result |-> analysis_result, timestamp |-> time]) @@ cache

\* lines 95-98
cache_store(cache, key, analysis_result, time) ==
    (key :> [result |-> analysis_result, timestamp |-> time]) @@ cache

\* lines 113-121
initial_result(source, time) ==
    [fuente |-> source,
     timestamp |-> time,
     analysis_method |-> "unknown",
     precio_estimado |-> "No especificado",
     clasificacion_modulo |-> "No clasificado",
     condiciones_comerciales |-> EmptyDict,
     confianza_analisis |-> "baja"]

\* a variant of the merge that sets the method before the update
merge_stage_method_first(result, stage_result, method) ==
    DictUpdate(DictUpdate(result, [analysis_method |-> method]), stage_result)

\* result.update(stage_result); result["analysis_method"] = method
merge_stage(result, stage_result, method) ==
    DictUpdate(DictUpdate(result, stage_result), [analysis_method |-> method])

\* line 124
local_enabled(local_flag, manager) == local_flag /\ manager = "manager"

\* a variant of line 136 that ignores the flags
gpt_enabled_always(gpt_flag, available) == TRUE

\* line 136
gpt_enabled(gpt_flag, available) == gpt_flag /\ available = "true"

\* variants of line 127 that accept every local result, and none
local_accept_any(local_result) == TRUE

local_accept_none(local_result) == FALSE

\* line 127
local_accepted(local_result) == DictGet(local_result, "confianza_analisis") # "baja"

\* lines 147-153
basic_stage(result, text) == merge_stage(result, BasicTable[text], "basic")

\* lines 138-143, the body of the try block after the remote call: a falsy
\* reply is "declined", a truthy dict is "merged", and update() of a truthy
\* value that is no dict has "raised"
gpt_block(gpt_result) ==
    IF ~Truthy(gpt_result) THEN "declined"
    ELSE IF gpt_result.json = "dict" THEN "merged"
    ELSE "raised"

\* a variant of the cascade without the except clause of line 144
gpt_no_except(outcome) == outcome

\* line 144, except Exception: what the block raised is logged and the cascade
\* goes on as if the reply had been declined
gpt_except(outcome) == IF outcome = "raised" THEN "declined" ELSE outcome

\* lines 135-153 up to the remote call: with the remote stage enabled the task
\* is suspended at the call, else the basic analysis ends the cascade
cascade_escalate(result, text, mm, log, conf) ==
    IF gpt_enabled(use_gpt, openai_available)
    THEN [mm |-> mm, result |-> result, log |-> Append(log, "gpt"),
          local_conf |-> conf, suspended |-> TRUE]
    ELSE [mm |-> mm, result |-> basic_stage(result, text), log |-> Append(log, "basic"),
          local_conf |-> conf, suspended |-> FALSE]

\* a variant of lines 126-133 that updates the record before it looks at the
\* confidence
cascade_after_local_updated(result, text, local) ==
    IF local_accepted(local.result)
    THEN [mm |-> local.mm, result |-> merge_stage(result, local.result, "local_models"),
          log |-> <<"local">>, local_conf |-> DictGet(local.result, "confianza_analisis"),
          suspended |-> FALSE]
    ELSE cascade_escalate(DictUpdate(result, local.result), text, local.mm, <<"local">>,
                          DictGet(local.result, "confianza_analisis"))

\* lines 126-133: a local result of a confidence other than "baja" ends the
\* cascade, any other is dropped
cascade_after_local(result, text, local) ==
    IF local_accepted(local.result)
    THEN [mm |-> local.mm, result |-> merge_stage(result, local.result, "local_models"),
          log |-> <<"local">>, local_conf |-> DictGet(local.result, "confianza_analisis"),
          suspended |-> FALSE]
    ELSE cascade_escalate(result, text, local.mm, <<"local">>,
                          DictGet(local.result, "confianza_analisis"))

\* _cascade_analysis up to the point where the remote call suspends the task
\* (openai was imported at construction when openai_available is true, so
\* _analyze_with_gpt reaches the awaited call).  Gives the manager's new state,
\* the result so far, the stages invoked, the confidence of the local stage,
\* and whether the task is suspended at the remote call.
cascade_begin(text, source, time, mm, env) ==
    IF local_enabled(use_local_models, model_manager)
    THEN cascade_after_local(initial_result(source, time), text,
                             _analyze_with_local_models(mm, text, env))
    ELSE cascade_escalate(initial_result(source, time), text, mm, <<>>, None)

\* lines 139-153: the reply is merged, or the basic analysis follows; an
\* exception that line 144 did not catch would leave _cascade_analysis
cascade_merge(result, text, gpt_result, outcome) ==
    IF outcome = "merged"
    THEN [result |-> merge_stage(result, gpt_result.dict, "gpt"), log |-> <<>>,
          raised |-> FALSE]
    ELSE IF outcome = "declined"
    THEN [result |-> basic_stage(result, text), log |-> <<"basic">>, raised |-> FALSE]
    ELSE [result |-> result, log |-> <<>>, raised |-> TRUE]

\* what the try block of the remote stage and its except clause make of the reply
cascade_reply(result, text, gpt_result) ==
    cascade_merge(result, text, gpt_result, gpt_except(gpt_block(gpt_result)))

\* _cascade_analysis from the return of the remote call
cascade_resume(result, text, reply) == cascade_reply(result, text, _analyze_with_gpt(reply))

\* one more call has returned analysis_result
count_method(counts, analysis_result) ==
    LET method == DictGet(analysis_result, "analysis_method")
    IN  (method :> (IF method \in DOMAIN counts THEN counts[method] ELSE 0) + 1) @@ counts

NoStats == [called |-> FALSE]

\* lines 391-396: cached_result["result"].get("analysis_method", "unknown") of
\* the entries of the cache, counted
method_of(entry) ==
    IF "analysis_method" \in DOMAIN entry.result THEN entry.result.analysis_method
    ELSE "unknown"

\* a variant of lines 391-396 that notes the methods without counting
method_counts_noted(cache) ==
    [method \in {method_of(cache[key]) : key \in DOMAIN cache} |-> 1]

method_counts(cache) ==
    [method \in {method_of(cache[key]) : key \in DOMAIN cache} |->
        Cardinality({key \in DOMAIN cache : method_of(cache[key]) = method})]

\* ModelManager.get_model_info: the keys of loaded_models, and no memory usage
\* for the models of the model, which have no attribute parameters
get_model_info(mm) ==
    [device |-> "cpu",
     models_loaded |-> {t \in ModelTasks : mm.loaded_models[t] # "absent"},
     cache_directory |-> "models_cache",
     memory_usage |-> EmptyDict]

\* lines 383-388 and 396: the record before the local models are looked at
stats_of_cache(cache) ==
    [cache_size |-> Cardinality(DOMAIN cache),
     cache_hit_rate |-> 0,
     analysis_methods |-> method_counts(cache),
     performance_metrics |-> EmptyDict]

\* get_analysis_stats: line 399 reads self.model_manager, an attribute that
\* __init__ sets only when use_local_models was given as true
get_analysis_stats_of(cache, manager, mm) ==
    IF manager = "unset" THEN [called |-> TRUE, raised |-> TRUE, stats |-> EmptyDict]
    ELSE [called |-> TRUE, raised |-> FALSE,
          stats |-> IF manager = "manager"
                    THEN DictUpdate(stats_of_cache(cache), [local_models |-> get_model_info(mm)])
                    ELSE stats_of_cache(cache)]

NoPrev == [has |-> FALSE, result |-> EmptyDict, at |-> 0]

\* asyncio.create_task(self.analyze_text_optimized(text, source))
NewTask(text_data) ==
    [text |-> text_data.text,
     source |-> text_data.source,
     pc |-> "pending",       \* "pending", "gpt_wait", "done" or "raised"
     result |-> EmptyDict,   \* the value returned, or `result` while suspended
     cleaned |-> "",         \* cleaned_text while suspended
     log |-> <<>>,           \* the stages invoked, in order
     hit |-> FALSE,          \* answered from the cache
     local_conf |-> None,    \* the confianza_analisis of the local stage, if it ran
     remote |-> None,        \* how the remote call ended, if it was made
     started |-> 0,          \* the time of the cache lookup
     prev |-> NoPrev]        \* history[key] at the cache lookup

\* the items of a batch: the empty text with every source, the two texts of one
\* normalized form from one source, and the unhashable text, whose source is
\* never read
TextData ==
    [text : {""}, source : Sources]
        \cup [text : Texts \ {"", UnhashableText}, source : {"site"}]
        \cup {[text |-> UnhashableText, source |-> "unknown"]}

BatchInputs == UNION {[1..n -> TextData] : n \in 0..MaxBatch}

Init ==
    \E local_arg, gpt_arg, manager_ok, openai_ok \in BOOLEAN :
        /\ use_local_models = (local_arg /\ manager_ok)
        /\ use_gpt = gpt_arg
        /\ model_manager = IF ~local_arg THEN "unset" ELSE IF manager_ok THEN "manager" ELSE "None"
        /\ openai_available = IF ~gpt_arg THEN "unset" ELSE IF openai_ok THEN "true" ELSE "false"
        /\ mm_state = NewManager([t \in ModelTasks |-> FALSE])
        /\ analysis_cache = EmptyDict
        /\ now = 0
        /\ phase = "idle"
        /\ tasks = <<>>
        /\ processed_results = <<>>
        /\ created = 0
        /\ history = EmptyDict
        /\ completed = EmptyDict
        /\ stats_result = NoStats
        /\ pure_input = NoInput
        /\ pure_output = NotCalled

\* time passes: between two calls, or while a task waits for the remote reply
\* (the event loop runs a task from one suspension to the next without a pause);
\* the clock is followed as long as a task can still read it
Tick ==
    /\ \/ phase # "running" /\ created < MaxTasks
       \/ \E i \in 1..Len(tasks) : tasks[i].pc = "gpt_wait"
    /\ \E t \in Times : t > now /\ now' = t
    /\ stats_result' = NoStats
    /\ UNCHANGED <<config, pure, mm_state, analysis_cache, phase, tasks, processed_results,
                   created, history, completed>>

\* analyze_batch_optimized, lines 354-364: one task per item, none has run yet
StartBatch ==
    /\ phase \in {"idle", "returned"}
    /\ \E texts \in BatchInputs :
          /\ created + Len(texts) <= MaxTasks
          /\ tasks' = [i \in 1..Len(texts) |-> NewTask(texts[i])]
          /\ created' = created + Len(texts)
    /\ phase' = "running"
    /\ processed_results' = <<>>
    /\ stats_result' = NoStats
    /\ UNCHANGED <<config, pure, mm_state, analysis_cache, now, history, completed>>

\* a variant of the cache hit that stores the entry anew, with the time of the hit
TaskHit_refresh(i, stored, prev) ==
    /\ tasks' = [tasks EXCEPT ![i].pc = "done",
                              ![i].result = stored,
                              ![i].hit = TRUE,
                              ![i].started = now,
                              ![i].prev = prev]
    /\ completed' = count_method(completed, stored)
    /\ analysis_cache' = cache_store(analysis_cache,
                                     cache_key(tasks[i].text, tasks[i].source), stored, now)
    /\ UNCHANGED <<mm_state, history>>

\* lines 82-86 of task i: answered from the cache
TaskHit(i, stored, prev) ==
    /\ tasks' = [tasks EXCEPT ![i].pc = "done",
                              ![i].result = stored,
                              ![i].hit = TRUE,
                              ![i].started = now,
                              ![i].prev = prev]
    /\ completed' = count_method(completed, stored)
    /\ UNCHANGED <<mm_state, analysis_cache, history>>

\* lines 89-100 of task i, c being what the cascade gave before its suspension:
\* a cascade that ended is stored and returned
TaskMiss(i, key, prev, cleaned_text, c) ==
    /\ mm_state' = c.mm
    /\ tasks' = [tasks EXCEPT ![i].pc = IF c.suspended THEN "gpt_wait" ELSE "done",
                              ![i].result = c.result,
                              ![i].cleaned = cleaned_text,
                              ![i].log = c.log,
                              ![i].local_conf = c.local_conf,
                              ![i].started = now,
                              ![i].prev = prev]
    /\ analysis_cache' = IF c.suspended THEN analysis_cache
                         ELSE cache_store(analysis_cache, key, c.result, now)
    /\ history' = IF c.suspended THEN history
                  ELSE (key :> [result |-> c.result, at |-> now]) @@ history
    /\ completed' = IF c.suspended THEN completed ELSE count_method(completed, c.result)

\* history[key] as a task keeps it
PrevOf(key) ==
    IF key \in DOMAIN history
    THEN [has |-> TRUE, result |-> history[key].result, at |-> history[key].at]
    ELSE NoPrev

\* lines 81-100 of task i for a text that has a hash
TaskLookup(i, text, source, key) ==
    IF cache_hit(analysis_cache, key, now)
    THEN TaskHit(i, cached_result(analysis_cache, key), PrevOf(key))
    ELSE \E env \in LocalEnvs :
            TaskMiss(i, key, PrevOf(key), CleanTable[text],
                     cascade_begin(CleanTable[text], source, now, mm_state, env))

\* analyze_text_optimized from its call to its first suspension or its return.
\* The event loop starts the tasks in the order of their creation.
TaskStart(i) ==
    /\ phase = "running"
    /\ tasks[i].pc = "pending"
    /\ \A j \in 1..(i - 1) : tasks[j].pc # "pending"
    /\ IF tasks[i].text = UnhashableText
       THEN /\ tasks' = [tasks EXCEPT ![i].pc = "raised", ![i].started = now]
            /\ UNCHANGED <<mm_state, analysis_cache, history, completed>>
       ELSE TaskLookup(i, tasks[i].text, tasks[i].source,
                       cache_key(tasks[i].text, tasks[i].source))
    /\ stats_result' = NoStats
    /\ UNCHANGED <<config, pure, now, phase, processed_results, created>>

\* lines 92-100 of task i after the remote call, c being what the cascade made
\* of the reply
TaskResume(i, key, c, reply) ==
    /\ tasks' = [tasks EXCEPT ![i].pc = IF c.raised THEN "raised" ELSE "done",
                              ![i].result = c.result,
                              ![i].log = tasks[i].log \o c.log,
                              ![i].remote = remote_outcome(reply)]
    /\ analysis_cache' = IF c.raised THEN analysis_cache
                         ELSE cache_store(analysis_cache, key, c.result, now)
    /\ history' = IF c.raised THEN history
                  ELSE (key :> [result |-> c.result, at |-> now]) @@ history
    /\ completed' = IF c.raised THEN completed ELSE count_method(completed, c.result)

\* the remote call returns (or times out) and analyze_text_optimized runs to its end
GptReturn(i) ==
    /\ phase = "running"
    /\ tasks[i].pc = "gpt_wait"
    /\ \E reply \in GptReplies :
          TaskResume(i, cache_key(tasks[i].text, tasks[i].source),
                     cascade_resume(tasks[i].result, tasks[i].cleaned, reply), reply)
    /\ stats_result' = NoStats
    /\ UNCHANGED <<config, pure, mm_state, now, phase, processed_results, created>>

\* a variant of lines 370-376 that passes on what gather gave
processed_raw(task) == task.result

\* lines 370-376: an exception becomes the fallback analysis
processed(task) == IF task.pc = "raised" THEN _get_fallback_analysis ELSE task.result

\* a variant of gather that gives the outcomes last task first
gather_reversed(batch) == [i \in 1..Len(batch) |-> processed(batch[Len(batch) + 1 - i])]

\* line 367 and lines 370-376: asyncio.gather gives the outcomes in the order
\* of the tasks it was given, whatever the order of their completion
gather(batch) == [i \in 1..Len(batch) |-> processed(batch[i])]

\* analyze_batch_optimized, lines 366-379: gather returns when every task has
\* ended, with the outcomes in the order of the tasks
BatchReturn ==
    /\ phase = "running"
    /\ \A i \in 1..Len(tasks) : tasks[i].pc \in {"done", "raised"}
    /\ processed_results' = gather(tasks)
    /\ phase' = "returned"
    /\ stats_result' = NoStats
    /\ UNCHANGED <<config, pure, mm_state, analysis_cache, now, tasks, created, history, completed>>

\* clear_cache and optimize_cache are synchronous and are called between two
\* batch calls
clear_cache ==
    /\ phase # "running" /\ created < MaxTasks
    /\ analysis_cache' = EmptyDict
    /\ history' = EmptyDict
    /\ stats_result' = NoStats
    /\ UNCHANGED <<config, pure, mm_state, now, phase, tasks, processed_results, created,
                   completed>>

\* a variant of lines 411-420 that drops the old entries of a cache of any size
optimized_any_size(cache, max_size, current_time) ==
    [key \in {k \in DOMAIN cache : ~(current_time - cache[k].timestamp > cache_ttl)} |->
        cache[key]]

\* lines 411-420
optimized(cache, max_size, current_time) ==
    IF Cardinality(DOMAIN cache) > max_size
    THEN LET old_entries == {key \in DOMAIN cache :
                                current_time - cache[key].timestamp > cache_ttl}
         IN  [key \in DOMAIN cache \ old_entries |-> cache[key]]
    ELSE cache

\* optimize_cache(max_size), lines 409-422
optimize_cache_of(max_size) ==
    /\ phase # "running" /\ created < MaxTasks
    /\ analysis_cache' = optimized(analysis_cache, max_size, now)
    /\ history' = EmptyDict
    /\ stats_result' = NoStats
    /\ UNCHANGED <<config, pure, mm_state, now, phase, tasks, processed_results, created,
                   completed>>

optimize_cache == \E max_size \in 0..MaxSizeArg : optimize_cache_of(max_size)

\* get_analysis_stats is synchronous: it runs between two steps of the tasks,
\* and changes nothing of the analyzer
get_analysis_stats ==
    /\ stats_result' = get_analysis_stats_of(analysis_cache, model_manager, mm_state)
    /\ UNCHANGED <<config, pure, mm_state, analysis_cache, now, phase, tasks, processed_results,
                   created, history, completed>>

Next ==
    \/ Tick
    \/ StartBatch
    \/ \E i \in 1..Len(tasks) : TaskStart(i)
    \/ \E i \in 1..Len(tasks) : GptReturn(i)
    \/ BatchReturn
    \/ clear_cache
    \/ optimize_cache
    \/ get_analysis_stats

Spec == Init /\ [][Next]_vars

(***************************************************************************)
(* The functions of the modules called on their own: the state after Init  *)
(* holds the call, a step makes it and keeps what it returned.  No         *)
(* analyzer takes part; its variables stay as OptimizedAnalyzer(False,     *)
(* False) sets them.                                                       *)
(***************************************************************************)
\* the most words put together into one text to classify
MaxWords == 4

\* words of the five categories, in both cases, and one of none
ClassWords ==
    <<"Wallet", "crypto", "kyc", "KYB", "verification", "trading", "exchange", "market",
      "payment", "gateway", "white label", "customizable", "hello">>

ClassTexts ==
    {str_join(SelectSeq(ClassWords, LAMBDA w : w \in picked)) :
        picked \in {ws \in SUBSET {ClassWords[i] : i \in 1..Len(ClassWords)} :
                       Cardinality(ws) <= MaxWords}}

\* the text of the specification's example, and its fragments
ExampleText == "Setup fee: $50,000 with monthly cost of $5,000"

PriceFragments ==
    {"$0.50", "$20", "$5,000,000", "12345", "5 euros", "fee", "plan", "from 10 to 20",
     "USD 1,234.50", "99 monthly", "abc"}

\* no fragment, one, or two in either order
PriceTexts ==
    {"", ExampleText} \cup PriceFragments
        \cup {pair[1] \o " " \o pair[2] :
                 pair \in {q \in PriceFragments \X PriceFragments : q[1] # q[2]}}

\* the comma-grouped amounts N of "Setup fee: $N"
SetupAmounts == {"999", "1,000", "50,000", "1,234,567"}

SetupFeeTexts == {"Setup fee: $" \o amount : amount \in SetupAmounts}

TermTexts ==
    {"", ExampleText} \cup SetupFeeTexts
        \cup {"Setup fee: " \o amount : amount \in SetupAmounts}
        \cup {"one-time fee 100 monthly", "transaction fee 2.5% per year",
              "5 per transaction billed quarterly in euros", "1,200 per year, 300 setup",
              "Monthly charge - 49.99 GBP", "no terms"}

ValidationTexts ==
    {"", "no context", "price", "Price cost", "price cost fee", "PRICE COST FEE CHARGE",
     "price cost fee charge setup", "price cost fee charge setup monthly"}

ValidationPrices ==
    {None, "", "abc", "1.2.3", "$0", "$0.50", "$5", "$50,000", "$1,000,000", "$1000001"}

PureInputs ==
    [fn : {"_process_classification_output"}, text : ClassTexts]
        \cup [fn : {"extract_price_from_text"}, text : PriceTexts]
        \cup [fn : {"extract_pricing_terms"}, text : TermTexts]
        \cup [fn : {"validate_price_extraction"}, text : ValidationTexts,
              extracted_price : ValidationPrices]

PureInit ==
    /\ use_local_models = FALSE
    /\ use_gpt = FALSE
    /\ model_manager = "unset"
    /\ openai_available = "unset"
    /\ mm_state = NewManager([t \in ModelTasks |-> FALSE])
    /\ analysis_cache = EmptyDict
    /\ now = 0
    /\ phase = "idle"
    /\ tasks = <<>>
    /\ processed_results = <<>>
    /\ created = 0
    /\ history = EmptyDict
    /\ completed = EmptyDict
    /\ stats_result = NoStats
    /\ pure_input \in PureInputs
    /\ pure_output = NotCalled

Returned(value) == [called |-> TRUE, value |-> value]

Apply_process_classification_output ==
    /\ pure_input.fn = "_process_classification_output"
    /\ ~pure_output.called
    /\ pure_output' = Returned(_process_classification_output(pure_input.text))
    /\ UNCHANGED <<config, mm_state, analysis_cache, now, phase, tasks, processed_results,
                   created, history, completed, stats_result, pure_input>>

Apply_extract_price_from_text ==
    /\ pure_input.fn = "extract_price_from_text"
    /\ ~pure_output.called
    /\ pure_output' = Returned(extract_price_from_text(pure_input.text))
    /\ UNCHANGED <<config, mm_state, analysis_cache, now, phase, tasks, processed_results,
                   created, history, completed, stats_result, pure_input>>

Apply_extract_pricing_terms ==
    /\ pure_input.fn = "extract_pricing_terms"
    /\ ~pure_output.called
    /\ pure_output' = Returned(extract_pricing_terms(pure_input.text))
    /\ UNCHANGED <<config, mm_state, analysis_cache, now, phase, tasks, processed_results,
                   created, history, completed, stats_result, pure_input>>

Apply_validate_price_extraction ==
    /\ pure_input.fn = "validate_price_extraction"
    /\ ~pure_output.called
    /\ pure_output' = Returned(validate_price_extraction(pure_input.text,
                                                         pure_input.extracted_price))
    /\ UNCHANGED <<config, mm_state, analysis_cache, now, phase, tasks, processed_results,
                   created, history, completed, stats_result, pure_input>>

PureNext ==
    \/ Apply_process_classification_output
    \/ Apply_extract_price_from_text
    \/ Apply_extract_pricing_terms
    \/ Apply_validate_price_extraction

PureSpec == PureInit /\ [][PureNext]_vars

(***************************************************************************)
(* The claims                                                              *)
(***************************************************************************)

\* C1, as the specification states it: every record that analyze_text_optimized
\* returns holds precio_estimado, clasificacion_modulo, confianza_analisis,
\* analysis_method and the five fields of condiciones_comerciales, none of
\* them null.  The cascade refutes it: a remote reply that is a JSON object is
\* merged as it is.
C1_Totality ==
    \A i \in 1..Len(tasks) :
        tasks[i].pc = "done" =>
            LET r == tasks[i].result
            IN  /\ \A f \in {"precio_estimado", "clasificacion_modulo",
                             "confianza_analisis", "analysis_method"} :
                      f \in DOMAIN r /\ r[f] # None
                /\ "condiciones_comerciales" \in DOMAIN r
                /\ \A f \in {"setup_fee", "monthly_cost", "transaction_fees",
                             "minimum_requirements", "contract_terms"} :
                      /\ f \in DOMAIN r.condiciones_comerciales
                      /\ r.condiciones_comerciales[f] # None

\* C2: for a string text no call of analyze_text_optimized ends with an
\* exception, whatever the local and the remote stage do, and a call that has
\* ended has returned a record tagged with the stage that made it.
C2_NoStageIsFatal ==
    \A i \in 1..Len(tasks) :
        tasks[i].text # UnhashableText =>
            /\ tasks[i].pc # "raised"
            /\ tasks[i].pc = "done" =>
                  /\ "analysis_method" \in DOMAIN tasks[i].result
                  /\ tasks[i].result.analysis_method \in {"local_models", "gpt", "basic"}

\* the local stage failed, the remote reply parsed to a value that is not
\* merged, and the call returned the basic analysis
C2_Witness ==
    \E i \in 1..Len(tasks) :
        /\ tasks[i].pc = "done"
        /\ tasks[i].local_conf = "baja"
        /\ tasks[i].remote = "json"
        /\ tasks[i].log = <<"local", "gpt", "basic">>

\* C3: a call whose lookup comes less than cache_ttl after the last call that
\* ran the cascade for the same text and source returned, with no clear_cache
\* or optimize_cache in between, returns that call's result and invokes no
\* stage.
C3_CacheIdempotence ==
    \A i \in 1..Len(tasks) :
        LET t == tasks[i]
        IN  (/\ t.pc \in {"gpt_wait", "done"}
             /\ t.prev.has
             /\ t.started - t.prev.at < cache_ttl)
            => /\ t.pc = "done"
               /\ t.hit
               /\ t.result = t.prev.result
               /\ t.log = <<>>
               /\ t.local_conf = None /\ t.remote = None

\* a second call one second after the first, answered with the first's result
C3_Witness ==
    \E i \in 1..Len(tasks) :
        /\ tasks[i].pc = "done"
        /\ tasks[i].prev.has
        /\ tasks[i].started = tasks[i].prev.at + 1
        /\ tasks[i].result = tasks[i].prev.result

C5_Escalation ==
    \A i \in 1..Len(tasks) :
        LET t == tasks[i]
        IN  (/\ t.pc \in {"gpt_wait", "done"}
             /\ ~t.hit
             /\ use_local_models /\ model_manager = "manager"
             /\ use_gpt /\ openai_available = "true")
            => /\ Len(t.log) >= 1 /\ t.log[1] = "local"
               /\ t.local_conf = "baja" => Len(t.log) >= 2 /\ t.log[2] = "gpt"
               /\ \A k \in 1..Len(t.log) : t.log[k] = "gpt" => k = 2

\* a task suspended at the remote call after a local stage of low confidence
C5_Witness ==
    \E i \in 1..Len(tasks) :
        /\ tasks[i].pc = "gpt_wait"
        /\ tasks[i].local_conf = "baja"
        /\ tasks[i].log = <<"local", "gpt">>

\* C6: a call whose remote call ended with a transport error or with the
\* timeout returns analysis_method "basic" and confianza_analisis "baja", with
\* the price and the module of _basic_analysis for the cleaned text.
C6_RemoteFailureIsBasic ==
    \A i \in 1..Len(tasks) :
        LET t == tasks[i]
        IN  (t.pc \in {"done", "raised"} /\ t.remote \in {"error", "timeout"})
            => /\ t.pc = "done"
               /\ t.result.analysis_method = "basic"
               /\ t.result.confianza_analisis = "baja"
               /\ t.result.precio_estimado = BasicTable[t.cleaned].precio_estimado
               /\ t.result.clasificacion_modulo = BasicTable[t.cleaned].clasificacion_modulo

\* the remote call timed out and the regular expressions found the price
C6_Witness ==
    \E i \in 1..Len(tasks) :
        /\ tasks[i].pc = "done"
        /\ tasks[i].remote = "timeout"
        /\ tasks[i].result.analysis_method = "basic"
        /\ tasks[i].result.precio_estimado = "$50,000"
        /\ tasks[i].result.clasificacion_modulo = "Wallet Base"

\* C7, as the specification states it: a call whose remote reply is not JSON
\* returns, without an exception, a record with analysis_method "basic".  The
\* code refutes it: _parse_gpt_response answers with the fallback analysis,
\* which the cascade merges and tags "gpt".
C7_MalformedReplyIsBasic ==
    \A i \in 1..Len(tasks) :
        tasks[i].remote = "malformed" =>
            /\ tasks[i].pc = "done"
            /\ tasks[i].result.analysis_method = "basic"

\* C8: on a cache miss, a local stage that ends with a confianza_analisis other
\* than "baja" ends the call: the record returned has analysis_method
\* "local_models", and neither the remote call nor the basic analysis is made.
C8_LocalShortCircuit ==
    \A i \in 1..Len(tasks) :
        LET t == tasks[i]
        IN  (/\ t.pc \in {"gpt_wait", "done"}
             /\ ~t.hit
             /\ t.local_conf \notin {None, "baja"})
            => /\ t.pc = "done"
               /\ t.result.analysis_method = "local_models"
               /\ t.log = <<"local">>
               /\ t.remote = None

\* the local stage classified the text, with the remote stage enabled
C8_Witness ==
    \E i \in 1..Len(tasks) :
        /\ tasks[i].pc = "done"
        /\ tasks[i].local_conf \in {"media", "alta"}
        /\ tasks[i].result.analysis_method = "local_models"
        /\ use_gpt /\ openai_available = "true"

\* C9: with use_local_models false no call invokes the local stage, with
\* use_gpt false no call invokes the remote stage, and with both false every
\* call that misses the cache returns analysis_method "basic".
C9_DisabledStagesSkipped ==
    \A i \in 1..Len(tasks) :
        LET t == tasks[i]
        IN  /\ ~use_local_models =>
                  t.local_conf = None /\ \A k \in 1..Len(t.log) : t.log[k] # "local"
            /\ ~use_gpt =>
                  t.remote = None /\ \A k \in 1..Len(t.log) : t.log[k] # "gpt"
            /\ (~use_local_models /\ ~use_gpt /\ ~t.hit /\ t.pc \in {"gpt_wait", "done"})
                  => /\ t.pc = "done"
                     /\ t.log = <<"basic">>
                     /\ t.result.analysis_method = "basic"

\* both stages disabled, and a call that missed the cache has returned
C9_Witness ==
    /\ ~use_local_models
    /\ ~use_gpt
    /\ \E i \in 1..Len(tasks) :
          tasks[i].pc = "done" /\ ~tasks[i].hit /\ tasks[i].log = <<"basic">>

\* C10: what analyze_batch_optimized returns is as long as its input, and its
\* element i is what the task of input item i returned (the fallback analysis
\* if the task raised), carrying the source of item i.
C10_BatchOrder ==
    phase = "returned" =>
        /\ Len(processed_results) = Len(tasks)
        /\ \A i \in 1..Len(tasks) :
              /\ processed_results[i] = processed(tasks[i])
              /\ tasks[i].pc = "done" => processed_results[i].fuente = tasks[i].source

\* a batch of two whose first task ended after its second, with different
\* results
C10_Witness ==
    /\ phase = "returned"
    /\ Len(tasks) = 2
    /\ tasks[1].pc = "done" /\ tasks[2].pc = "done"
    /\ ~tasks[1].hit /\ ~tasks[2].hit
    /\ cache_key(tasks[1].text, tasks[1].source) \in DOMAIN history
    /\ cache_key(tasks[2].text, tasks[2].source) \in DOMAIN history
    /\ history[cache_key(tasks[1].text, tasks[1].source)].at
          > history[cache_key(tasks[2].text, tasks[2].source)].at
    /\ processed_results[1] # processed_results[2]

\* C11: when the task of a batch item raises, analyze_batch_optimized returns
\* all the same, with one result per item: the fallback analysis in the slot of
\* the task that raised and, in every other slot, what that item's task
\* returned.  The step in which a task raises changes neither the cache nor the
\* model manager nor any other task, so the other tasks run as they would
\* without it.
C11_BatchFaultIsolation ==
    [][/\ (phase = "running" /\ phase' = "returned") =>
             /\ Len(processed_results') = Len(tasks)
             /\ \A i \in 1..Len(tasks) :
                   /\ tasks[i].pc = "raised" =>
                         /\ {"precio_estimado", "clasificacion_modulo", "confianza_analisis",
                             "condiciones_comerciales"} \subseteq DOMAIN processed_results'[i]
                         /\ processed_results'[i].precio_estimado = "No especificado"
                         /\ processed_results'[i].clasificacion_modulo = "No clasificado"
                         /\ processed_results'[i].confianza_analisis = "baja"
                         /\ \A f \in {"setup_fee", "monthly_cost", "transaction_fees",
                                      "minimum_requirements", "contract_terms"} :
                               processed_results'[i].condiciones_comerciales[f]
                                   = "No especificado"
                   /\ tasks[i].pc = "done" => processed_results'[i] = tasks[i].result
       /\ \A i \in DOMAIN tasks \cap DOMAIN tasks' :
             (tasks[i].pc # "raised" /\ tasks'[i].pc = "raised") =>
                 /\ UNCHANGED <<config, mm_state, analysis_cache, history, completed>>
                 /\ \A j \in DOMAIN tasks \ {i} : tasks'[j] = tasks[j]
      ]_vars

\* a batch of two has returned: the first task raised, the second ran the cascade
C11_Witness ==
    /\ phase = "returned"
    /\ Len(tasks) = 2
    /\ tasks[1].pc = "raised"
    /\ tasks[2].pc = "done" /\ ~tasks[2].hit
    /\ processed_results[1] = _get_fallback_analysis
    /\ processed_results[2] = tasks[2].result

\* C12, as the specification states it: a call for the empty text returns
\* without an exception a record whose precio_estimado, clasificacion_modulo,
\* confianza_analisis and condiciones_comerciales are those of
\* _get_fallback_analysis.  The code refutes it: every stage answers the empty
\* text as it answers any other.
C12_EmptyIsFallback ==
    \A i \in 1..Len(tasks) :
        (tasks[i].text = "" /\ tasks[i].pc \in {"done", "raised"}) =>
            /\ tasks[i].pc = "done"
            /\ \A f \in DOMAIN _get_fallback_analysis :
                  /\ f \in DOMAIN tasks[i].result
                  /\ tasks[i].result[f] = _get_fallback_analysis[f]

\* C13: a lookup that finds an entry of age cache_ttl or more is a miss: the
\* call is not answered from the cache and runs the cascade, and the entry
\* stays in the cache, as it was while the call is suspended and replaced by
\* the call's own store when the cascade has ended.
C13_StaleIsMiss ==
    [][\A i \in DOMAIN tasks \cap DOMAIN tasks' :
          (/\ tasks[i].pc = "pending" /\ tasks'[i].pc # "pending"
           /\ tasks[i].text # UnhashableText
           /\ cache_key(tasks[i].text, tasks[i].source) \in DOMAIN analysis_cache
           /\ now - analysis_cache[cache_key(tasks[i].text, tasks[i].source)].timestamp
                  >= cache_ttl)
          => /\ ~tasks'[i].hit
             /\ Len(tasks'[i].log) > 0
             /\ tasks'[i].pc \in {"gpt_wait", "done"}
             /\ tasks'[i].pc = "gpt_wait" => analysis_cache' = analysis_cache
             /\ tasks'[i].pc = "done" =>
                   analysis_cache' = cache_store(analysis_cache,
                                                 cache_key(tasks[i].text, tasks[i].source),
                                                 tasks'[i].result, now)
      ]_vars

\* a call found the entry of its key exactly cache_ttl old, ran the cascade and
\* stored its own result
C13_Witness ==
    \E i \in 1..Len(tasks) :
        /\ tasks[i].pc = "done"
        /\ ~tasks[i].hit
        /\ tasks[i].prev.has
        /\ tasks[i].started - tasks[i].prev.at = cache_ttl
        /\ Len(tasks[i].log) > 0
        /\ analysis_cache[cache_key(tasks[i].text, tasks[i].source)].timestamp
              = tasks[i].started

\* C14: a call answered from the cache leaves the cache as it is, the
\* timestamp of the entry served included, and the entry served is younger
\* than cache_ttl counted from its store.
C14_HitLeavesCache ==
    [][\A i \in DOMAIN tasks \cap DOMAIN tasks' :
          (tasks[i].pc = "pending" /\ tasks'[i].hit) =>
              /\ analysis_cache' = analysis_cache
              /\ cache_key(tasks[i].text, tasks[i].source) \in DOMAIN analysis_cache
              /\ now - analysis_cache[cache_key(tasks[i].text, tasks[i].source)].timestamp
                     < cache_ttl
              /\ tasks'[i].result
                     = analysis_cache[cache_key(tasks[i].text, tasks[i].source)].result
      ]_vars

\* a call was answered from the cache one second after the store, and the
\* entry still carries the time of the store
C14_Witness ==
    \E i \in 1..Len(tasks) :
        /\ tasks[i].hit
        /\ tasks[i].prev.has
        /\ tasks[i].started = tasks[i].prev.at + 1
        /\ analysis_cache[cache_key(tasks[i].text, tasks[i].source)].timestamp
              = tasks[i].prev.at

\* C15, as the specification states it: a call is answered from the cache
\* whenever the cache holds an entry younger than cache_ttl that was stored for
\* the same source and a text of the same normalized form, and an entry never
\* answers a call of another source.  The code refutes the first part: the key
\* is made of the hash of the text as given, before clean_text.
C15_KeyOfNormalizedText ==
    [][\A i \in DOMAIN tasks \cap DOMAIN tasks' :
          (/\ tasks[i].pc = "pending" /\ tasks'[i].pc # "pending"
           /\ tasks[i].text # UnhashableText)
          => /\ (\E key \in DOMAIN analysis_cache :
                    /\ key[2] = tasks[i].source
                    /\ CleanTable[key[1]] = CleanTable[tasks[i].text]
                    /\ now - analysis_cache[key].timestamp < cache_ttl)
                 => tasks'[i].hit
             /\ tasks'[i].hit =>
                   \E key \in DOMAIN analysis_cache :
                       /\ key[2] = tasks[i].source
                       /\ tasks'[i].result = analysis_cache[key].result
      ]_vars

\* C16, as the specification states it: of two calls of one batch for the same
\* text and source whose lookups are less than cache_ttl apart, the later one
\* is answered from the cache.  The code refutes it: a task that is suspended
\* at the remote call has stored nothing yet.
C16_ProducedOncePerKey ==
    \A i, j \in 1..Len(tasks) :
        (/\ i < j
         /\ tasks[i].text # UnhashableText
         /\ tasks[i].text = tasks[j].text /\ tasks[i].source = tasks[j].source
         /\ tasks[i].pc \in {"gpt_wait", "done"}
         /\ tasks[j].pc \in {"gpt_wait", "done"}
         /\ tasks[j].started - tasks[i].started < cache_ttl)
        => tasks[j].hit

\* C17, as the specification states it: get_analysis_stats returns, without an
\* exception, a record with cache_size and analysis_methods, which holds
\* local_models exactly when the local models are active.  The code refutes it:
\* an analyzer built with use_local_models false has no attribute model_manager.
C17_StatsTotal ==
    stats_result.called =>
        /\ ~stats_result.raised
        /\ "cache_size" \in DOMAIN stats_result.stats
        /\ "analysis_methods" \in DOMAIN stats_result.stats
        /\ "local_models" \in DOMAIN stats_result.stats
              <=> (use_local_models /\ model_manager = "manager")

\* C18, as the specification states it: analysis_methods of the stats gives,
\* for every method, the number of calls that have returned a record of that
\* method.  The code refutes it: the stats count the entries of the cache.
C18_CountersAccumulate ==
    (stats_result.called /\ ~stats_result.raised) =>
        \A method \in DOMAIN completed \cup DOMAIN stats_result.stats.analysis_methods :
            /\ method \in DOMAIN stats_result.stats.analysis_methods
            /\ method \in DOMAIN completed
            /\ stats_result.stats.analysis_methods[method] = completed[method]

\* C19, as the specification states it: once loading a local model has failed
\* (loaded_models holds None for it, or its cache directory was made and no
\* model kept), no later call invokes the local stage.  The code refutes it:
\* use_local_models is never cleared after construction, and a failed download
\* is not recorded in loaded_models.
C19_LocalFailureIsFinal ==
    [][\A i \in DOMAIN tasks \cap DOMAIN tasks' :
          (/\ tasks[i].pc = "pending" /\ tasks'[i].pc # "pending"
           /\ \E t \in ModelTasks :
                 \/ mm_state.loaded_models[t] = "None"
                 \/ mm_state.cache_dirs[t] /\ mm_state.loaded_models[t] = "absent")
          => /\ \A k \in 1..Len(tasks'[i].log) : tasks'[i].log[k] # "local"
             /\ mm_state' = mm_state
      ]_vars

\* C20, as the specification states it: a record made by the local or the
\* remote stage whose precio_estimado the stage left at "No especificado" (or
\* out) carries the price that extract_price_from_text finds in the cleaned
\* text, and a module left at "No clasificado" carries the module of the
\* keywords.  The code refutes it: the stage's record is merged by update()
\* alone.
C20_MergeFillsSentinels ==
    \A i \in 1..Len(tasks) :
        LET t == tasks[i]
        IN  (/\ t.pc = "done" /\ ~t.hit
             /\ t.result.analysis_method \in {"local_models", "gpt"})
            => /\ "precio_estimado" \in DOMAIN t.result
               /\ t.result.precio_estimado = "No especificado" =>
                     BasicTable[t.cleaned].precio_estimado = "No especificado"
               /\ "clasificacion_modulo" \in DOMAIN t.result
               /\ t.result.clasificacion_modulo # "No clasificado"

\* C21, as the specification states it: after optimize_cache(max_size) on a
\* cache of more than max_size entries, every entry that remains is one a
\* lookup would serve, now - timestamp < cache_ttl, the age cache_ttl included
\* among the ages removed.  The code removes the ages above cache_ttl only, and
\* an entry of the age cache_ttl remains that no lookup serves.
C21_CompactionRemovesStale ==
    [][\A max_size \in 0..MaxSizeArg :
          (optimize_cache_of(max_size) /\ Cardinality(DOMAIN analysis_cache) > max_size)
              => \A key \in DOMAIN analysis_cache' :
                    now - analysis_cache'[key].timestamp < cache_ttl]_vars

\* C29: optimize_cache(max_size) removes no entry younger than cache_ttl and
\* adds or alters none, and it leaves a cache of at most max_size entries as it
\* is, old entries included; the entries that remain may be more than max_size.
C29_CompactionKeepsLive ==
    [][\A max_size \in 0..MaxSizeArg :
          optimize_cache_of(max_size)
              => /\ DOMAIN analysis_cache' \subseteq DOMAIN analysis_cache
                 /\ \A key \in DOMAIN analysis_cache' :
                       analysis_cache'[key] = analysis_cache[key]
                 /\ \A key \in DOMAIN analysis_cache :
                       now - analysis_cache[key].timestamp < cache_ttl
                           => key \in DOMAIN analysis_cache'
                 /\ Cardinality(DOMAIN analysis_cache) <= max_size
                       => analysis_cache' = analysis_cache]_vars

\* optimize_cache has run (it alone forgets the history and keeps entries) on a
\* cache of one entry older than cache_ttl, with max_size = 1, and has kept it
C29_Witness ==
    /\ history = EmptyDict
    /\ phase = "returned"
    /\ \E key \in DOMAIN analysis_cache : now - analysis_cache[key].timestamp > cache_ttl

\* C26: every record the cascade returns on a cache miss carries the
\* analysis_method of the stage merged last, "local_models", "gpt" or "basic",
\* also when the payload merged has an analysis_method of its own.
C26_MethodNamesStage ==
    \A i \in 1..Len(tasks) :
        LET t == tasks[i]
        IN  (t.pc = "done" /\ ~t.hit)
            => /\ Len(t.log) > 0
               /\ "analysis_method" \in DOMAIN t.result
               /\ t.result.analysis_method =
                     (CASE t.log[Len(t.log)] = "local" -> "local_models"
                        [] t.log[Len(t.log)] = "gpt" -> "gpt"
                        [] OTHER -> "basic")
               /\ t.result.analysis_method # initial_result(t.source, t.started).analysis_method

\* the remote stage has merged the payload that carries analysis_method "remote"
C26_Witness ==
    \E i \in 1..Len(tasks) :
        /\ tasks[i].pc = "done" /\ ~tasks[i].hit
        /\ tasks[i].remote = "json"
        /\ tasks[i].result.analysis_method = "gpt"
        /\ tasks[i].result.condiciones_comerciales = PartialPayload.condiciones_comerciales
        /\ PartialPayload.analysis_method # "gpt"

\* C27: what get_analysis_stats returns counts the entries of the cache, fresh
\* or stale, by the method of the stored result: each count is the number of
\* entries of that method, the counts add up to cache_size, and calls answered
\* from the cache and items that failed are counted nowhere.
C27_StatsProjectCache ==
    (stats_result.called /\ ~stats_result.raised)
    => LET counts == stats_result.stats.analysis_methods
           Count(method) == IF method \in DOMAIN counts THEN counts[method] ELSE 0
           Stored(method) ==
               Cardinality({key \in DOMAIN analysis_cache :
                               method_of(analysis_cache[key]) = method})
       IN  /\ DOMAIN counts \subseteq {"local_models", "gpt", "basic", "unknown"}
           /\ \A method \in {"local_models", "gpt", "basic", "unknown"} :
                 Count(method) = Stored(method)
           /\ stats_result.stats.cache_size = Cardinality(DOMAIN analysis_cache)
           /\ Count("local_models") + Count("gpt") + Count("basic") + Count("unknown")
                 = stats_result.stats.cache_size

\* the stats after two calls, one of them answered from the cache: one entry
C27_Witness ==
    /\ stats_result.called /\ ~stats_result.raised
    /\ stats_result.stats.cache_size = 1
    /\ \E method \in DOMAIN stats_result.stats.analysis_methods :
          stats_result.stats.analysis_methods[method] = 1
    /\ \E i \in 1..Len(tasks) : tasks[i].hit

\* C28: with the remote stage enabled, a call for a key whose last cascade gave
\* a basic record less than cache_ttl ago is answered with that record from the
\* cache, and invokes neither the local nor the remote stage.
C28_FallbackIsCached ==
    \A i \in 1..Len(tasks) :
        LET t == tasks[i]
        IN  (/\ gpt_enabled(use_gpt, openai_available)
             /\ t.pc # "pending"
             /\ t.prev.has
             /\ DictGet(t.prev.result, "analysis_method") = "basic"
             /\ t.started - t.prev.at < cache_ttl)
            => /\ t.pc = "done" /\ t.hit
               /\ t.result = t.prev.result
               /\ t.log = <<>>
               /\ t.remote = None
               /\ t.local_conf = None

\* a second call for a key whose first call ended basic after the remote stage
\* had failed, made later and within cache_ttl
C28_Witness ==
    /\ gpt_enabled(use_gpt, openai_available)
    /\ \E i \in 1..Len(tasks) :
          /\ tasks[i].hit
          /\ tasks[i].prev.has
          /\ tasks[i].result.analysis_method = "basic"
          /\ tasks[i].started > tasks[i].prev.at

C22_ClassificationRule ==
    (pure_output.called /\ pure_input.fn = "_process_classification_output")
    => LET text_lower == str_lower(pure_input.text)
           out == pure_output.value
           Size(m) == Len(module_keywords[m])
           Hits(m) == Cardinality({i \in 1..Size(m) :
                                      Contains(text_lower, module_keywords[m][i])})
           Below(a, b) == Hits(a) * Size(b) < Hits(b) * Size(a)
           Wins(i) ==
               /\ \A j \in 1..Len(module_names) : ~Below(module_names[i], module_names[j])
               /\ \A j \in 1..(i - 1) : Below(module_names[j], module_names[i])
       IN  /\ DOMAIN out.scores = {module_names[i] : i \in 1..Len(module_names)}
           /\ \A m \in DOMAIN out.scores :
                 out.scores[m].num = Hits(m) /\ out.scores[m].den = Size(m)
           /\ IF \A m \in DOMAIN out.scores : Hits(m) = 0
              THEN out.clasificacion_modulo = "General Service"
              ELSE \E i \in 1..Len(module_names) :
                      Wins(i) /\ out.clasificacion_modulo = module_names[i]
           /\ out.confianza_analisis =
                 (IF \E m \in DOMAIN out.scores : 2 * Hits(m) > Size(m)
                  THEN "alta" ELSE "media")
           /\ out.confianza_analisis # "baja"

\* two categories share the highest score, which is exactly 1/2: the one
\* declared first is returned, with "media"
C22_Witness ==
    /\ pure_output.called /\ pure_input.fn = "_process_classification_output"
    /\ pure_output.value.clasificacion_modulo = "Trading Platform"
    /\ pure_output.value.confianza_analisis = "media"
    /\ pure_output.value.scores["Trading Platform"] = [num |-> 2, den |-> 4]
    /\ pure_output.value.scores["Payment Gateway"] = [num |-> 2, den |-> 4]

\* C23: extract_price_from_text takes its candidates from the patterns in
\* pattern order, from the numbers of four and more digits only when no pattern
\* matched; it returns the first candidate of a value in [1, 1000000] when the
\* text holds a price keyword, else the first candidate, and None when there is
\* no candidate or the text is empty.
C23_SelectionPolicy ==
    (pure_output.called /\ pure_input.fn = "extract_price_from_text")
    => LET cleaned == clean_text(pure_input.text)
           by_pattern == PricesOfPatterns(price_patterns, cleaned)
           candidates == found_prices(cleaned)
           Number(i) == KeepChars(candidates[i], NumberChars)
           Preferred(i) ==
               /\ \E k \in 1..Len(price_keywords) : Contains(str_lower(cleaned), price_keywords[k])
               /\ IsFloat(Number(i))
               /\ Pow10(FloatOf(Number(i)).scale) <= FloatOf(Number(i)).n
               /\ FloatOf(Number(i)).n <= 1000000 * Pow10(FloatOf(Number(i)).scale)
       IN  /\ Len(by_pattern) > 0 => candidates = by_pattern
           /\ Len(by_pattern) = 0 =>
                 candidates = PricesOfMatches(re_findall(large_number_pattern, cleaned, 0, FALSE))
           /\ pure_output.value =
                 (IF Len(pure_input.text) = 0 \/ Len(candidates) = 0 THEN None
                  ELSE IF \E i \in 1..Len(candidates) : Preferred(i)
                  THEN candidates[CHOOSE i \in 1..Len(candidates) :
                                     Preferred(i) /\ \A j \in 1..(i - 1) : ~Preferred(j)]
                  ELSE candidates[1])

\* the price returned is not the first candidate: the first is below 1
C23_Witness ==
    /\ pure_output.called /\ pure_input.fn = "extract_price_from_text"
    /\ pure_output.value # None
    /\ Len(found_prices(clean_text(pure_input.text))) > 1
    /\ pure_output.value # found_prices(clean_text(pure_input.text))[1]

\* C24, as the specification states it: for the example text and for a text
\* "Setup fee: $N", N a comma-grouped amount, extract_price_from_text returns a
\* price and extract_pricing_terms a setup_fee whose number is N.  The code
\* finds the price and no setup_fee: no pattern of setup_patterns lets a "$"
\* stand before the digits.
C24_SetupFeeRoundTrip ==
    (/\ pure_output.called /\ pure_input.fn = "extract_pricing_terms"
     /\ pure_input.text \in SetupFeeTexts \cup {ExampleText})
    => /\ extract_price_from_text(pure_input.text) # None
       /\ "setup_fee" \in DOMAIN pure_output.value
       /\ pure_output.value.setup_fee # None
       /\ \E amount \in SetupAmounts :
             /\ \/ pure_input.text = "Setup fee: $" \o amount
                \/ pure_input.text = ExampleText /\ amount = "50,000"
             /\ IsFloat(KeepChars(pure_output.value.setup_fee, NumberChars))
             /\ ~FloatLess(FloatOf(KeepChars(pure_output.value.setup_fee, NumberChars)),
                           FloatOf(KeepChars(amount, NumberChars)))
             /\ ~FloatLess(FloatOf(KeepChars(amount, NumberChars)),
                           FloatOf(KeepChars(pure_output.value.setup_fee, NumberChars)))

\* C25, as the specification states it: validate_price_extraction returns a
\* record whose confidence is min(1.0, 0.2 * the number of its keywords in the
\* text), is_valid holds exactly for a number in (0, 1000000] with a confidence
\* above 0.3, and a price that is empty or no number gives is_valid false and
\* an issue.  The code leaves the confidence at 0.0 when the price is empty or
\* no number, whatever the text holds.
C25_ValidationRule ==
    (pure_output.called /\ pure_input.fn = "validate_price_extraction")
    => LET out == pure_output.value
           present == Cardinality({k \in 1..Len(validation_keywords) :
                                      Contains(str_lower(pure_input.text),
                                               validation_keywords[k])})
           number == KeepChars(pure_input.extracted_price, NumberChars)
           numeric == pure_input.extracted_price # None /\ IsFloat(number)
       IN  /\ DOMAIN out = {"is_valid", "confidence", "issues", "suggestions"}
           /\ out.confidence = Tenths(IF 2 * present < 10 THEN 2 * present ELSE 10)
           /\ out.is_valid <=>
                 /\ numeric
                 /\ FloatOf(number).n > 0
                 /\ FloatOf(number).n <= 1000000 * Pow10(FloatOf(number).scale)
                 /\ 2 * present > 3
           /\ ~numeric => ~out.is_valid /\ Len(out.issues) > 0

====
